---- MODULE Spec2Model ----
(***************************************************************************)
(* Verification model of the hospital-management backend's ETL core:       *)
(*   app/core/etl_error_handling.py  (ETLErrorHandler: classification,     *)
(*                                    retry loop, bounded error ledger)    *)
(*   app/core/scheduler.py           (ETLScheduler: job functions, manual  *)
(*                                    trigger, job history, pause/resume/  *)
(*                                    remove, start/stop)                  *)
(*   app/core/synapse_integration.py (ETLOrchestrator.run_full_etl /       *)
(*                                    run_incremental_etl)                 *)
(*                                                                         *)
(* A failure message is represented by the set of classifier keywords      *)
(* that occur in its lower-cased text; that is all classify_error reads.   *)
(* Fields that exist only in the model to state properties (append         *)
(* numbers, call numbers, counters) are marked "ghost".                    *)
(***************************************************************************)
EXTENDS Integers, Sequences, FiniteSets, TLC

VARIABLES
    error_history,   \* ETLErrorHandler.error_history
    logged,          \* ghost: number of records ever appended to error_history
    call,            \* per caller: the activation of handle_error_with_retry
    ncalls,          \* ghost: number of handle_error_with_retry calls started
    sched_running,   \* ETLScheduler.scheduler.running
    jobs,            \* the job store: job id -> "absent" | "active" | "paused"
    job_history,     \* ETLScheduler.job_history
    hist_added,      \* ghost: number of records ever appended to job_history
    run,             \* per scheduled ETL job: its running job function
    manual,          \* per caller slot: an activation of trigger_manual_etl
    clock,           \* datetime.utcnow() truncated to seconds
    last_op,         \* the last start / stop / pause_job / resume_job / remove_job
                     \* call to return and its result
    nops,            \* ghost: number of pause/resume/remove calls made
    removed,         \* ghost: per id "no" | "removed" (by remove_job) | "readded" (by start)
    held,            \* ghost: per id "no" | "held" (paused by pause_job) |
                     \*        "restarted" (held, then start) | "resumed"
    nruns,           \* ghost: number of job functions / manual triggers begun
    nlogs,           \* ghost: number of direct log_error calls made
    log_level,       \* logger.getEffectiveLevel() of the module's logger
    stored_configs,  \* ETLErrorHandler.retry_configs
    patients,        \* the committed rows of the patients table, by patient_id
    session,         \* the Session's identity map: per patient_id the loaded
                     \* Patient object with its in-memory attributes
    ntokens,         \* ghost: number of Fernet tokens made (the next IV)
    pret,            \* the last PatientService call and what it returned
    pops,            \* ghost: number of PatientService calls made
    deactivated,     \* ghost: the ids deactivate_patient has deactivated
    probe            \* the last call of a read-only method: its arguments and result

handler_vars == <<error_history, logged, call, ncalls, nlogs, log_level,
                  stored_configs>>
sched_vars == <<sched_running, jobs, job_history, hist_added, run, manual,
                clock, last_op, nops, removed, held, nruns>>
vars == <<error_history, logged, call, ncalls, sched_running, jobs,
          job_history, hist_added, run, manual, clock, last_op, nops, removed,
          held, nruns, nlogs, log_level, stored_configs,
          probe, patients, session, ntokens, pret, pops, deactivated>>
patient_vars == <<patients, session, ntokens, pret, pops, deactivated>>

(***************************************************************************)
(* Bounds of the model.                                                    *)
(***************************************************************************)
MaxCalls == 2         \* handle_error_with_retry calls per behaviour
MaxScriptLen == 2     \* length of a work function's scripted failure prefix
MaxLogs == 2          \* direct log_error calls per behaviour
LedgerSlack == 3      \* the pre-filled ledger starts this far below capacity
NumManual == 2        \* callers of trigger_manual_etl
MaxRuns == 3          \* job functions / manual triggers begun per behaviour
MaxClock == 2         \* last clock tick
TicksPerSecond == 2   \* clock ticks per second of utcnow()
MaxOps == 2           \* pause_job / resume_job / remove_job calls per behaviour
MaxHistAdds == 150    \* direct _add_job_to_history calls (the history test makes 150)

(***************************************************************************)
(* ETLErrorType, ETLErrorSeverity, RetryConfig.                            *)
(***************************************************************************)
ETLErrorType == {"database_connection", "data_validation", "azure_service",
                 "pipeline_execution", "data_export", "network_timeout",
                 "authentication", "resource_limit", "unknown"}

ETLErrorSeverity == {"low", "medium", "high", "critical"}

\* RetryConfig(max_attempts=3, base_delay=1.0, max_delay=60.0,
\*             exponential_base=2.0, jitter=True); delays in tenths of a second.
RetryConfig(max_attempts, base_delay) ==
    [max_attempts |-> max_attempts, base_delay |-> base_delay,
     max_delay |-> 600, exponential_base |-> 2, jitter |-> TRUE]

\* ETLErrorHandler.__init__: the default policy of every category.
retry_configs ==
    [t \in ETLErrorType |->
        CASE t = "database_connection" -> RetryConfig(5, 20)
          [] t = "azure_service"       -> RetryConfig(4, 50)
          [] t = "network_timeout"     -> RetryConfig(3, 10)
          [] t = "pipeline_execution"  -> RetryConfig(2, 100)
          [] t = "data_export"         -> RetryConfig(3, 30)
          [] t = "authentication"      -> RetryConfig(2, 50)
          [] t = "resource_limit"      -> RetryConfig(1, 300)
          [] t = "data_validation"     -> RetryConfig(1, 10)
          [] t = "unknown"             -> RetryConfig(2, 50)]

handler_max_history_size == 1000

(***************************************************************************)
(* classify_error: first match over the keywords found in the lower-cased  *)
(* message (kw is the set of keywords the message contains).               *)
(***************************************************************************)
Keywords == {"connection", "database", "azure", "blob", "synapse", "timeout",
             "timed out", "pipeline", "data factory", "export", "upload",
             "auth", "credential", "permission", "limit", "quota", "throttle",
             "validation", "invalid"}

\* A plausible slip: the timeout branch placed after the pipeline branch
\* (mutant of classify_error).
classify_error_timeout_late(kw) ==
    IF "connection" \in kw \/ "database" \in kw THEN "database_connection"
    ELSE IF "azure" \in kw \/ "blob" \in kw \/ "synapse" \in kw THEN "azure_service"
    ELSE IF "pipeline" \in kw \/ "data factory" \in kw THEN "pipeline_execution"
    ELSE IF "timeout" \in kw \/ "timed out" \in kw THEN "network_timeout"
    ELSE IF "export" \in kw \/ "upload" \in kw THEN "data_export"
    ELSE IF "auth" \in kw \/ "credential" \in kw \/ "permission" \in kw THEN "authentication"
    ELSE IF "limit" \in kw \/ "quota" \in kw \/ "throttle" \in kw THEN "resource_limit"
    ELSE IF "validation" \in kw \/ "invalid" \in kw THEN "data_validation"
    ELSE "unknown"

classify_error(kw) ==
    IF "connection" \in kw \/ "database" \in kw THEN "database_connection"
    ELSE IF "azure" \in kw \/ "blob" \in kw \/ "synapse" \in kw THEN "azure_service"
    ELSE IF "timeout" \in kw \/ "timed out" \in kw THEN "network_timeout"
    ELSE IF "pipeline" \in kw \/ "data factory" \in kw THEN "pipeline_execution"
    ELSE IF "export" \in kw \/ "upload" \in kw THEN "data_export"
    ELSE IF "auth" \in kw \/ "credential" \in kw \/ "permission" \in kw THEN "authentication"
    ELSE IF "limit" \in kw \/ "quota" \in kw \/ "throttle" \in kw THEN "resource_limit"
    ELSE IF "validation" \in kw \/ "invalid" \in kw THEN "data_validation"
    ELSE "unknown"

\* A plausible slip: the lookup misses and every category gets the .get
\* default (mutant of determine_severity).
determine_severity_default(error_type) == "medium"

determine_severity(error_type) ==
    CASE error_type = "database_connection" -> "high"
      [] error_type = "azure_service"       -> "high"
      [] error_type = "pipeline_execution"  -> "high"
      [] error_type = "authentication"      -> "critical"
      [] error_type = "resource_limit"      -> "medium"
      [] error_type = "network_timeout"     -> "medium"
      [] error_type = "data_export"         -> "medium"
      [] error_type = "data_validation"     -> "low"
      [] error_type = "unknown"             -> "medium"
      [] OTHER                              -> "medium"

\* self.retry_configs.get(error_type, self.retry_configs[ETLErrorType.UNKNOWN])
policy_of(error_type) ==
    IF error_type \in DOMAIN stored_configs THEN stored_configs[error_type]
    ELSE stored_configs["unknown"]

\* A plausible slip: one attempt too many (mutant of should_retry).
should_retry_inclusive(error_type, attempt) ==
    attempt <= policy_of(error_type).max_attempts

should_retry(error_type, attempt) ==
    attempt < policy_of(error_type).max_attempts

\* A plausible slip: the override is stored as the category's policy
\* (mutant of retry_configs_after).
retry_configs_after_stored(configs, error_type, custom) ==
    IF custom.given THEN [configs EXCEPT ![error_type] = custom.cfg] ELSE configs

\* self.retry_configs after `config = custom_retry_config or
\* self.retry_configs.get(error_type, ...)`: config is a local, and neither
\* should_retry nor calculate_delay assigns to retry_configs or to a policy.
retry_configs_after(configs, error_type, custom) == configs

(***************************************************************************)
(* The module's logger.  log_error hands logger.critical / error /         *)
(* warning / info the dict {**error.to_dict(), "context": ...} as `extra`. *)
(* When the logger is enabled for that level it builds a LogRecord, and    *)
(* Logger.makeRecord raises KeyError("Attempt to overwrite 'message' in    *)
(* LogRecord") because `extra` has the key "message"; log_error then ends  *)
(* before its append.  The effective level is the environment's: the       *)
(* application's LOG_LEVEL default INFO, Python's default WARNING, or       *)
(* logging switched off (logging.disable(CRITICAL)).                       *)
(***************************************************************************)
LevelInfo == 20
LevelWarning == 30
LevelError == 40
LevelCritical == 50
LevelOff == 60

LogLevels == {LevelInfo, LevelWarning, LevelOff}

\* The level of the logger method log_error picks for a severity.
SeverityLevel(severity) ==
    CASE severity = "critical" -> LevelCritical
      [] severity = "high"     -> LevelError
      [] severity = "medium"   -> LevelWarning
      [] OTHER                 -> LevelInfo

isEnabledFor(level) == level >= log_level

\* log_error(error) raises KeyError out of its logger call.
log_error_raises(severity) == isEnabledFor(SeverityLevel(severity))

\* A plausible slip: the trim keeps the oldest records (mutant of log_error).
log_error_keep_oldest(history, rec) ==
    LET h == Append(history, rec)
    IN  IF log_error_raises(rec.severity) THEN history
        ELSE IF Len(h) > handler_max_history_size
        THEN SubSeq(h, 1, handler_max_history_size)
        ELSE h

\* log_error: append, then keep the last max_history_size records.
log_error(history, rec) ==
    LET h == Append(history, rec)
    IN  IF log_error_raises(rec.severity) THEN history
        ELSE IF Len(h) > handler_max_history_size
        THEN SubSeq(h, Len(h) - handler_max_history_size + 1, Len(h))
        ELSE h

(***************************************************************************)
(* Inputs of the retry executor.  A work function is a script: it fails    *)
(* with script[n] on its n-th call while n <= Len(script); after that it   *)
(* either succeeds or (forever) keeps failing with the last message.  It   *)
(* is a coroutine function (is_async) or a plain function; the executor    *)
(* evaluates `await func(...)` either way, and awaiting the value a plain  *)
(* function returned raises TypeError inside the try block.  has_name: the *)
(* callable has a __name__ (a function or a bound method; a                *)
(* functools.partial or an object with __call__ has none).  After          *)
(* log_error both branches of the except block format func.__name__ into a *)
(* log message, which raises AttributeError for a callable without it.     *)
(***************************************************************************)
MsgDatabase == {"database", "connection"}    \* "Database connection failed"
MsgTimeout == {"timed out"}                  \* "Request timed out"
MsgValidation == {"validation"}              \* "Data validation error"
SampleMsgs == {MsgDatabase, MsgTimeout, MsgValidation}

Scripts == UNION {[1..n -> SampleMsgs] : n \in 0..MaxScriptLen}

AsyncWorks == {w \in [script : Scripts, forever : BOOLEAN, is_async : {TRUE},
                         has_name : {TRUE}] :
                  w.forever => Len(w.script) > 0}

\* Plain functions that return a value at once or after one failure.
SyncWorks == {w \in [script : Scripts, forever : {FALSE}, is_async : {FALSE},
                        has_name : {TRUE}] :
                 Len(w.script) <= 1}

Works == AsyncWorks \cup SyncWorks

NoWork == [script |-> <<>>, forever |-> FALSE, is_async |-> TRUE,
           has_name |-> TRUE]

\* "object int can't be used in 'await' expression": no classifier keyword.
MsgAwait == {}

WorkFails(w, n) == n <= Len(w.script) \/ w.forever

WorkMsg(w, n) ==
    IF n <= Len(w.script) THEN w.script[n] ELSE w.script[Len(w.script)]

AlwaysFails(w) == w.forever

\* The n-th evaluation of `await func(...)` raises: func failed, or func is a
\* plain function and its value is not awaitable.
AwaitFails(w, n) == WorkFails(w, n) \/ ~w.is_async

AwaitMsg(w, n) == IF WorkFails(w, n) THEN WorkMsg(w, n) ELSE MsgAwait

\* custom_retry_config: None, or a RetryConfig of the caller.
NoOverride == [given |-> FALSE, cfg |-> RetryConfig(3, 10)]
Overrides == {NoOverride, [given |-> TRUE, cfg |-> RetryConfig(2, 1)]}

\* The tasks that call handle_error_with_retry on the one handler.
Callers == {1, 2}

\* Where activations are followed one at a time (other writers of the ledger
\* interleave with them as LogError steps), the task that makes them.
SoloCallers == {1}

NoError == [exc |-> "none", error_type |-> "none", severity |-> "none", attempt |-> 0]

\* wrapped: the call is made by a with_etl_error_handling wrapper, on the
\* ETLErrorHandler() the wrapper constructs; own_history is that handler's
\* error_history, which only the wrapper's frame refers to.
IdleCall == [pc |-> "idle", id |-> 0, work |-> NoWork, custom |-> NoOverride,
             attempt |-> 0, work_calls |-> 0, nrec |-> 0, error |-> NoError,
             wrapped |-> FALSE, own_history |-> <<>>]

\* datetime.isoformat() of clock tick t: the seconds, then the fraction of a
\* second only when it is not zero ("...T00:00:01" but "...T00:00:01.500000").
isoformat(t) ==
    IF t % TicksPerSecond = 0 THEN <<t \div TicksPerSecond>>
    ELSE <<t \div TicksPerSecond, t % TicksPerSecond>>

\* The entry log_error appends for an ETLError built now (seq and call are
\* ghost; timestamp is ETLError.timestamp.isoformat()).
OutcomeRecord(seq, id, attempt, msg, error_type, severity) ==
    [seq |-> seq, call |-> id, attempt |-> attempt, message |-> msg,
     error_type |-> error_type, severity |-> severity,
     timestamp |-> isoformat(clock)]

\* ETLError values handed to log_error directly (as the statistics test does).
DirectErrors == {<<"authentication", "critical">>, <<"data_validation", "low">>}

(***************************************************************************)
(* handle_error_with_retry, one step per stretch between suspension        *)
(* points: StartCall (attempt = 1), Attempt (await func, and on failure    *)
(* the whole except block up to raise or sleep), Wake (the sleep ends,     *)
(* attempt += 1), Complete (the caller has taken the result).              *)
(***************************************************************************)
StartCall(c, w, custom) ==
    /\ call[c].pc = "idle"
    /\ ncalls < MaxCalls
    /\ ncalls' = ncalls + 1
    /\ call' = [call EXCEPT ![c] = [pc |-> "calling", id |-> ncalls + 1,
                   work |-> w, custom |-> custom, attempt |-> 1,
                   work_calls |-> 0, nrec |-> 0, error |-> NoError,
                   wrapped |-> FALSE, own_history |-> <<>>]]
    /\ UNCHANGED <<error_history, logged, nlogs, log_level, stored_configs>>
    /\ UNCHANGED sched_vars
    /\ UNCHANGED probe
    /\ UNCHANGED patient_vars

\* A call of a function decorated with with_etl_error_handling(context,
\* retry_config): the wrapper constructs a new ETLErrorHandler() and awaits
\* its handle_error_with_retry(func, custom_retry_config = retry_config).
WrappedCall(c, w, custom) ==
    /\ call[c].pc = "idle"
    /\ ncalls < MaxCalls
    /\ ncalls' = ncalls + 1
    /\ call' = [call EXCEPT ![c] = [pc |-> "calling", id |-> ncalls + 1,
                   work |-> w, custom |-> custom, attempt |-> 1,
                   work_calls |-> 0, nrec |-> 0, error |-> NoError,
                   wrapped |-> TRUE, own_history |-> <<>>]]
    /\ UNCHANGED <<error_history, logged, nlogs, log_level, stored_configs>>
    /\ UNCHANGED sched_vars
    /\ UNCHANGED probe
    /\ UNCHANGED patient_vars

Attempt(c) ==
    LET st == call[c]
        n == st.work_calls + 1
    IN  /\ st.pc = "calling"
        /\ IF ~AwaitFails(st.work, n)
           THEN /\ call' = [call EXCEPT ![c].pc = "returned",
                                        ![c].work_calls = n]
                /\ UNCHANGED <<error_history, logged, stored_configs>>
           ELSE LET msg == AwaitMsg(st.work, n)
                    error_type == classify_error(msg)
                    severity == determine_severity(error_type)
                    rec == OutcomeRecord(logged + 1, st.id, st.attempt, msg,
                                         error_type, severity)
                    own == IF st.wrapped
                           THEN log_error(st.own_history, rec)
                           ELSE st.own_history
                IN  /\ error_history' = IF st.wrapped THEN error_history
                                         ELSE log_error(error_history, rec)
                    /\ stored_configs' =
                          IF log_error_raises(severity) THEN stored_configs
                          ELSE retry_configs_after(stored_configs, error_type,
                                                   st.custom)
                    /\ IF log_error_raises(severity)
                       THEN /\ logged' = logged
                            /\ call' = [call EXCEPT
                                  ![c].pc = "raised",
                                  ![c].work_calls = n,
                                  ![c].error = [exc |-> "KeyError",
                                                error_type |-> error_type,
                                                severity |-> severity,
                                                attempt |-> st.attempt]]
                       ELSE /\ logged' = logged + 1
                            /\ IF ~should_retry(error_type, st.attempt)
                                  \/ ~st.work.has_name
                               THEN call' = [call EXCEPT
                                      ![c].pc = "raised",
                                      ![c].work_calls = n,
                                      ![c].nrec = st.nrec + 1,
                                      ![c].own_history = own,
                                      ![c].error = [exc |-> IF st.work.has_name
                                                            THEN "ETLError"
                                                            ELSE "AttributeError",
                                                    error_type |-> error_type,
                                                    severity |-> severity,
                                                    attempt |-> st.attempt]]
                               ELSE call' = [call EXCEPT
                                      ![c].pc = "sleeping",
                                      ![c].work_calls = n,
                                      ![c].nrec = st.nrec + 1,
                                      ![c].own_history = own]
        /\ UNCHANGED <<ncalls, nlogs, log_level>>
        /\ UNCHANGED sched_vars
        /\ UNCHANGED probe
        /\ UNCHANGED patient_vars

Wake(c) ==
    /\ call[c].pc = "sleeping"
    /\ call' = [call EXCEPT ![c].pc = "calling",
                            ![c].attempt = call[c].attempt + 1]
    /\ UNCHANGED <<error_history, logged, ncalls, nlogs, log_level,
                   stored_configs>>
    /\ UNCHANGED sched_vars
    /\ UNCHANGED probe
    /\ UNCHANGED patient_vars

Complete(c) ==
    /\ call[c].pc \in {"returned", "raised"}
    /\ call' = [call EXCEPT ![c] = IdleCall]
    /\ UNCHANGED <<error_history, logged, ncalls, nlogs, log_level,
                   stored_configs>>
    /\ UNCHANGED sched_vars
    /\ UNCHANGED probe
    /\ UNCHANGED patient_vars

\* A direct log_error(ETLError(message, error_type, severity)) call.
LogError(e) ==
    /\ nlogs < MaxLogs
    /\ nlogs' = nlogs + 1
    /\ error_history' = log_error(error_history,
                            OutcomeRecord(logged + 1, 0, 0, {}, e[1], e[2]))
    /\ logged' = IF log_error_raises(e[2]) THEN logged ELSE logged + 1
    /\ UNCHANGED <<call, ncalls, log_level, stored_configs>>
    /\ UNCHANGED sched_vars
    /\ UNCHANGED probe
    /\ UNCHANGED patient_vars

(***************************************************************************)
(* ETLScheduler.                                                           *)
(***************************************************************************)
scheduler_max_history_size == 100

JobIds == {"daily_full_etl", "hourly_appointments_etl",
           "resource_utilization_etl", "weekly_doctor_performance_etl",
           "cleanup_job_history"}

EtlJobs == JobIds \ {"cleanup_job_history"}

DataTypes == {"appointments", "resources", "doctors"}

\* The data_type a scheduled job passes to run_incremental_etl.
JobDataType(job) ==
    CASE job = "hourly_appointments_etl"       -> "appointments"
      [] job = "resource_utilization_etl"      -> "resources"
      [] job = "weekly_doctor_performance_etl" -> "doctors"
      [] OTHER                                 -> "all"

\* strftime('%Y%m%d_%H%M%S'): the time with its sub-second part dropped.
strftime(t) == t \div TicksPerSecond

\* f"{prefix}_{utcnow().strftime(...)}"
MakeJobId(kind, data_type, t) ==
    [kind |-> kind, data_type |-> data_type, time |-> strftime(t)]

NoJobId == [kind |-> "none", data_type |-> "none", time |-> 0]

\* Failure messages of the collaborators (str(e)).
BizMsg == "database connection failed"
SessionMsg == "could not open session"
CloseMsg == "session close failed"
UnboundMsg == "cannot access local variable 'etl_result' where it is not associated with a value"

\* What an orchestrator call gives its caller: a result dict, or an exception.
EtlResult(status, error, failed_types) ==
    [raised |-> FALSE, exc |-> "none", status |-> status, error |-> error,
     job_id |-> NoJobId, pipeline_failed |-> failed_types]

EtlRaise(exc) ==
    [raised |-> TRUE, exc |-> exc, status |-> "none", error |-> "none",
     job_id |-> NoJobId, pipeline_failed |-> {}]

\* ETLOrchestrator.run_full_etl: fails is the set of data types whose
\* export/upload/pipeline call raises.  Each failure is caught inside the
\* loop and noted under pipeline_runs[data_type]; the status is "completed".
run_full_etl(fails) == EtlResult("completed", "none", fails)

\* ETLOrchestrator.run_incremental_etl: a collaborator failure is caught and
\* returned as status "failed"; a start_date/end_date without isoformat()
\* fails before etl_result is bound, and the handler's own use of etl_result
\* then raises to the caller.
run_incremental_etl(data_type, fails, dates_ok) ==
    IF ~dates_ok THEN EtlRaise(UnboundMsg)
    ELSE IF data_type \in fails THEN EtlResult("failed", BizMsg, {})
    ELSE EtlResult("completed", "none", {})

\* job_type: f"manual_etl_{data_type}", or the name of the scheduled job.
ManualType(data_type) == <<"manual_etl", data_type>>

ScheduledType(job) == <<job, "none">>

\* An entry of job_history before _add_job_to_history stamps it.
JobInfo(job_id, job_type, status, error) ==
    [job_id |-> job_id, job_type |-> job_type, status |-> status,
     error |-> error]

\* _add_job_to_history: append; trim to the last max_history_size entries
\* once the length exceeds max_history_size * 1.2.
add_job_to_history(history, rec) ==
    LET h == Append(history, rec)
    IN  IF Len(h) * 10 > scheduler_max_history_size * 12
        THEN SubSeq(h, Len(h) - scheduler_max_history_size + 1, Len(h))
        ELSE h

\* _cleanup_job_history
cleanup_job_history(history) ==
    IF Len(history) > scheduler_max_history_size
    THEN SubSeq(history, Len(history) - scheduler_max_history_size + 1,
                Len(history))
    ELSE history

\* The stamped entry (seq and inv are ghost: append number, invocation number).
Stamp(info, seq, inv) ==
    [seq |-> seq, inv |-> inv, job_id |-> info.job_id,
     job_type |-> info.job_type, status |-> info.status, error |-> info.error]

RECURSIVE AddAll(_, _, _, _)
AddAll(history, infos, seq, inv) ==
    IF infos = <<>> THEN history
    ELSE AddAll(add_job_to_history(history, Stamp(Head(infos), seq + 1, inv)),
                Tail(infos), seq + 1, inv)

(***************************************************************************)
(* The body of a scheduled job function (_run_daily_full_etl, ...) as the  *)
(* entries it appends, given what its collaborators do:                    *)
(*   session_exc  the exception of next(get_db()) / AnalyticsService(db),  *)
(*   fails        the data types whose business calls raise,               *)
(*   close_exc    the exception of db.close() when the with block exits    *)
(* ("none" = no exception).  The exit of the with block comes after the    *)
(* entry of the result was appended, inside the same try.                  *)
(***************************************************************************)
FailedInfo(job_id, job_type, exc) == JobInfo(job_id, job_type, "failed", exc)

run_job_function(job, job_id, session_exc, fails, close_exc) ==
    IF session_exc # "none" THEN <<FailedInfo(job_id, ScheduledType(job), session_exc)>>
    ELSE LET r == IF job = "daily_full_etl" THEN run_full_etl(fails)
                  ELSE run_incremental_etl(JobDataType(job), fails, TRUE)
         IN  IF r.raised
             THEN <<FailedInfo(job_id, ScheduledType(job),
                        IF close_exc # "none" THEN close_exc ELSE r.exc)>>
             ELSE <<JobInfo(job_id, ScheduledType(job), r.status, r.error)>>
                  \o (IF close_exc # "none"
                      THEN <<FailedInfo(job_id, ScheduledType(job), close_exc)>>
                      ELSE <<>>)

(***************************************************************************)
(* trigger_manual_etl: the entries it appends and the value it gives its   *)
(* caller.  ret.raised tells whether an exception leaves the function.     *)
(***************************************************************************)

ErrorResult(job_id, exc) ==
    [raised |-> FALSE, exc |-> "none", status |-> "failed", error |-> exc,
     job_id |-> job_id, pipeline_failed |-> {}]

trigger_manual_etl(job_id, data_type, session_exc, fails, dates_ok, close_exc) ==
    IF session_exc # "none"
    THEN [entries |-> <<FailedInfo(job_id, ManualType(data_type), session_exc)>>,
          ret |-> ErrorResult(job_id, session_exc)]
    ELSE LET r == IF data_type = "all" THEN run_full_etl(fails)
                  ELSE run_incremental_etl(data_type, fails, dates_ok)
         IN  IF r.raised
             THEN LET exc == IF close_exc # "none" THEN close_exc ELSE r.exc
                  IN  [entries |-> <<FailedInfo(job_id, ManualType(data_type), exc)>>,
                       ret |-> ErrorResult(job_id, exc)]
             ELSE IF close_exc # "none"
             THEN [entries |-> <<JobInfo(job_id, ManualType(data_type), r.status, r.error),
                                 FailedInfo(job_id, ManualType(data_type), close_exc)>>,
                   ret |-> ErrorResult(job_id, close_exc)]
             ELSE [entries |-> <<JobInfo(job_id, ManualType(data_type), r.status, r.error)>>,
                   ret |-> r]

(***************************************************************************)
(* Scheduler state and inputs.                                             *)
(***************************************************************************)
NoRet == [raised |-> FALSE, exc |-> "none", status |-> "none",
          error |-> "none", job_id |-> NoJobId, pipeline_failed |-> {}]

IdleRun == [pc |-> "idle", inv |-> 0, job_id |-> NoJobId,
            data_type |-> "none", dates_ok |-> TRUE, session_exc |-> "none",
            fails |-> {}, close_exc |-> "none",
            added |-> 0, ret |-> NoRet]

ManualSlots == 1..NumManual

ManualDataTypes == {"all", "appointments"}

\* The sets of data types whose business calls may raise during one run.
InputFails(data_type) ==
    IF data_type = "all" THEN {{}, {"appointments"}, DataTypes}
    ELSE {{}, {data_type}}

\* run_full_etl accepts start_date=None; run_incremental_etl needs dates.
DatesOk(data_type) == IF data_type = "all" THEN {TRUE} ELSE BOOLEAN

AllFails == SUBSET DataTypes

SessionOutcomes == {"none", SessionMsg}
CloseOutcomes == {"none", CloseMsg}

\* Job ids handed to pause_job / resume_job / remove_job.
OpIds == {"daily_full_etl", "hourly_appointments_etl", "no_such_job"}

NoOp == [op |-> "none", id |-> "none", ret |-> FALSE]

(***************************************************************************)
(* The scheduler library behind self.scheduler (AsyncIOScheduler with a    *)
(* MemoryJobStore).  Its code is not part of the repository, so the        *)
(* definitions of this block follow the specification of the Job           *)
(* Scheduler: a set of uniquely-identified triggers, per job id the state  *)
(* machine {active <-> paused} -> removed, an id that is unknown or was    *)
(* removed is not a valid target, start begins firing triggers and         *)
(* shutdown stops accepting new ones, and a fire does not invoke the       *)
(* function of a paused job.                                               *)
(***************************************************************************)
\* scheduler.running once scheduler.start() has returned.
scheduler_start(running) == TRUE

\* scheduler.running once scheduler.shutdown(wait=True) has returned.
scheduler_shutdown(running) == FALSE

\* scheduler.shutdown may raise only when there is nothing to shut down.
ShutdownMayRaise(running) == ~running

\* The entry of the job registry after scheduler.add_job(id=...,
\* replace_existing=True): the trigger is registered anew, whatever the
\* registry held under the id.
add_job(state) == "active"

\* The id names a job of the registry (otherwise the library call raises).
LookupJob(id) == id \in JobIds /\ jobs[id] # "absent"

\* The registry entry after scheduler.remove_job.
job_after_remove(state) == "absent"

\* The registry entry after scheduler.pause_job.
job_after_pause(state) == "paused"

\* The registry entry after scheduler.resume_job.
job_after_resume(state) == "active"

\* A trigger of job j fires and its function is invoked: the scheduler is
\* running and the job is registered and not paused.
Fires(j) == sched_running /\ jobs[j] = "active"

(***************************************************************************)
(* start / stop / _add_default_jobs.  start() is called on a scheduler     *)
(* that is not running (the application and the tests start it once, or    *)
(* again after stop()); it starts the library scheduler and then registers *)
(* the five default jobs, each with replace_existing=True.  stop() calls   *)
(* scheduler.shutdown(wait=True) inside try / except Exception: whatever   *)
(* the library raises is logged and stop() returns normally.  No job       *)
(* function is ever in flight when stop() runs: see FireJob.               *)
(***************************************************************************)
\* A plausible slip: the housekeeping job is not registered (mutant of
\* add_default_jobs).
add_default_jobs_etl_only(store) ==
    [j \in JobIds |-> IF j \in EtlJobs THEN add_job(store[j]) ELSE store[j]]

\* The job registry after _add_default_jobs: five add_job calls, one per id.
add_default_jobs(store) == [j \in JobIds |-> add_job(store[j])]

Start ==
    /\ ~sched_running
    /\ sched_running' = scheduler_start(sched_running)
    /\ jobs' = add_default_jobs(jobs)
    /\ last_op' = [op |-> "start", id |-> "none", ret |-> TRUE]
    /\ removed' = [j \in JobIds |->
                      IF removed[j] = "removed" /\ jobs'[j] # "absent"
                      THEN "readded" ELSE removed[j]]
    /\ held' = [j \in JobIds |->
                   IF held[j] = "held" /\ jobs'[j] = "active"
                   THEN "restarted" ELSE held[j]]
    /\ UNCHANGED <<job_history, hist_added, run, manual, clock, nops, nruns>>
    /\ UNCHANGED handler_vars
    /\ UNCHANGED probe
    /\ UNCHANGED patient_vars

Stop(shutdown_raised) ==
    /\ shutdown_raised => ShutdownMayRaise(sched_running)
    /\ sched_running' = IF shutdown_raised THEN sched_running
                        ELSE scheduler_shutdown(sched_running)
    /\ last_op' = [op |-> "stop", id |-> "none", ret |-> TRUE]
    /\ UNCHANGED <<jobs, job_history, hist_added, run, manual, clock, nops,
                   removed, held, nruns>>
    /\ UNCHANGED handler_vars
    /\ UNCHANGED probe
    /\ UNCHANGED patient_vars

(***************************************************************************)
(* A trigger fire of a scheduled ETL job: one run of its job function.     *)
(* The function awaits run_full_etl / run_incremental_etl, and nothing on  *)
(* that path suspends (export_and_upload_data writes parquet files with    *)
(* synchronous calls, trigger_pipeline has no await of its own), so the    *)
(* whole function is one uninterrupted callback of the event loop.         *)
(* session_exc, fails and close_exc are what the session factory, the      *)
(* business calls and db.close() do during the run; when the session does  *)
(* not open the other two are never reached.                               *)
(***************************************************************************)
FireJob(j, session_exc, fails, close_exc) ==
    /\ Fires(j)
    /\ nruns < MaxRuns
    /\ fails \in InputFails(JobDataType(j))
    /\ session_exc # "none" => (fails = {} /\ close_exc = "none")
    /\ nruns' = nruns + 1
    /\ LET jid == MakeJobId(j, "none", clock)
           entries == run_job_function(j, jid, session_exc, fails, close_exc)
       IN  /\ job_history' = AddAll(job_history, entries, hist_added, nruns + 1)
           /\ hist_added' = hist_added + Len(entries)
           /\ run' = [run EXCEPT ![j] = [IdleRun EXCEPT
                         !.pc = "done", !.inv = nruns + 1,
                         !.job_id = jid, !.data_type = JobDataType(j),
                         !.session_exc = session_exc, !.fails = fails,
                         !.close_exc = close_exc, !.added = Len(entries)]]
    /\ UNCHANGED <<sched_running, jobs, manual, clock, last_op, nops, removed,
                   held>>
    /\ UNCHANGED handler_vars
    /\ UNCHANGED probe
    /\ UNCHANGED patient_vars

(***************************************************************************)
(* trigger_manual_etl(data_type, start_date, end_date) by caller slot k,   *)
(* from the call to the returned value: like the job functions it never    *)
(* suspends.  dates_ok tells whether start_date and end_date are given     *)
(* (run_incremental_etl raises on None before any business call).          *)
(***************************************************************************)
TriggerManualEtl(k, data_type, dates_ok, session_exc, fails, close_exc) ==
    /\ dates_ok \in DatesOk(data_type)
    /\ fails \in InputFails(data_type)
    /\ session_exc # "none" => (fails = {} /\ close_exc = "none")
    /\ (data_type # "all" /\ ~dates_ok) => fails = {}
    /\ nruns < MaxRuns
    /\ nruns' = nruns + 1
    /\ LET jid == MakeJobId("manual_etl", data_type, clock)
           out == trigger_manual_etl(jid, data_type, session_exc, fails,
                                     dates_ok, close_exc)
       IN  /\ job_history' = AddAll(job_history, out.entries, hist_added,
                                    nruns + 1)
           /\ hist_added' = hist_added + Len(out.entries)
           /\ manual' = [manual EXCEPT ![k] = [IdleRun EXCEPT
                            !.pc = "done", !.inv = nruns + 1,
                            !.job_id = jid, !.data_type = data_type,
                            !.dates_ok = dates_ok,
                            !.session_exc = session_exc, !.fails = fails,
                            !.close_exc = close_exc,
                            !.added = Len(out.entries), !.ret = out.ret]]
    /\ UNCHANGED <<sched_running, jobs, run, clock, last_op, nops, removed,
                   held>>
    /\ UNCHANGED handler_vars
    /\ UNCHANGED probe
    /\ UNCHANGED patient_vars

Tick ==
    /\ clock < MaxClock
    /\ clock' = clock + 1
    /\ UNCHANGED <<sched_running, jobs, job_history, hist_added, run, manual,
                   last_op, nops, removed, held, nruns>>
    /\ UNCHANGED handler_vars
    /\ UNCHANGED probe
    /\ UNCHANGED patient_vars

(***************************************************************************)
(* Direct calls used by the history test: _add_job_to_history({"job_id":   *)
(* f"job_{i}", "status": "completed"}) and _cleanup_job_history().         *)
(***************************************************************************)
AddJobToHistory ==
    /\ hist_added < MaxHistAdds
    /\ job_history' = add_job_to_history(job_history,
           Stamp(JobInfo(MakeJobId("job", "none", hist_added * TicksPerSecond),
                         <<"none", "none">>, "completed", "none"),
                 hist_added + 1, 0))
    /\ hist_added' = hist_added + 1
    /\ UNCHANGED <<sched_running, jobs, run, manual, clock, last_op, nops,
                   removed, held, nruns>>
    /\ UNCHANGED handler_vars
    /\ UNCHANGED probe
    /\ UNCHANGED patient_vars

CleanupJobHistory ==
    /\ job_history' = cleanup_job_history(job_history)
    /\ UNCHANGED <<sched_running, jobs, hist_added, run, manual, clock,
                   last_op, nops, removed, held, nruns>>
    /\ UNCHANGED handler_vars
    /\ UNCHANGED probe
    /\ UNCHANGED patient_vars

(***************************************************************************)
(* pause_job / resume_job / remove_job: each calls the library inside      *)
(* try / except Exception, returns True when the call returns and False    *)
(* when it raises (the id names no job of the registry).  The calls are    *)
(* made on a started scheduler, as the job management endpoints make them. *)
(***************************************************************************)
PauseJob(id) ==
    /\ sched_running
    /\ nops < MaxOps
    /\ nops' = nops + 1
    /\ IF LookupJob(id)
       THEN /\ jobs' = [jobs EXCEPT ![id] = job_after_pause(jobs[id])]
            /\ held' = [held EXCEPT ![id] = "held"]
            /\ last_op' = [op |-> "pause", id |-> id, ret |-> TRUE]
       ELSE /\ UNCHANGED <<jobs, held>>
            /\ last_op' = [op |-> "pause", id |-> id, ret |-> FALSE]
    /\ UNCHANGED <<sched_running, job_history, hist_added, run, manual, clock,
                   removed, nruns>>
    /\ UNCHANGED handler_vars
    /\ UNCHANGED probe
    /\ UNCHANGED patient_vars

ResumeJob(id) ==
    /\ sched_running
    /\ nops < MaxOps
    /\ nops' = nops + 1
    /\ IF LookupJob(id)
       THEN /\ jobs' = [jobs EXCEPT ![id] = job_after_resume(jobs[id])]
            /\ held' = [held EXCEPT ![id] =
                           IF held[id] = "no" THEN "no" ELSE "resumed"]
            /\ last_op' = [op |-> "resume", id |-> id, ret |-> TRUE]
       ELSE /\ UNCHANGED <<jobs, held>>
            /\ last_op' = [op |-> "resume", id |-> id, ret |-> FALSE]
    /\ UNCHANGED <<sched_running, job_history, hist_added, run, manual, clock,
                   removed, nruns>>
    /\ UNCHANGED handler_vars
    /\ UNCHANGED probe
    /\ UNCHANGED patient_vars

RemoveJob(id) ==
    /\ sched_running
    /\ nops < MaxOps
    /\ nops' = nops + 1
    /\ IF LookupJob(id)
       THEN /\ jobs' = [jobs EXCEPT ![id] = job_after_remove(jobs[id])]
            /\ removed' = [removed EXCEPT ![id] = "removed"]
            /\ last_op' = [op |-> "remove", id |-> id, ret |-> TRUE]
       ELSE /\ UNCHANGED <<jobs, removed>>
            /\ last_op' = [op |-> "remove", id |-> id, ret |-> FALSE]
    /\ UNCHANGED <<sched_running, job_history, hist_added, run, manual, clock,
                   held, nruns>>
    /\ UNCHANGED handler_vars
    /\ UNCHANGED probe
    /\ UNCHANGED patient_vars

(***************************************************************************)
(* The patient store: app/services/patient.py over app/models/patient.py,  *)
(* with the field encryption of app/core/security.py.                      *)
(*                                                                         *)
(* A column value is its text under the Fernet layers put on it: ivs holds *)
(* the IV of each token from the innermost out, and no layer is plain      *)
(* text.  Fernet.encrypt draws a new IV for every token, so two tokens are *)
(* equal only when they are the same token.                                *)
(*                                                                         *)
(* The Session is made with autoflush=False (app/db/database.py,           *)
(* tests/conftest.py) and the default expire_on_commit: a query reads the  *)
(* committed rows and returns the object the identity map already holds,   *)
(* with its in-memory attributes, when there is one; commit() flushes      *)
(* every changed object of the session and expires them all; refresh()     *)
(* reloads one object; rollback() and close() drop what is in memory.      *)
(***************************************************************************)
MaxPatients == 2      \* rows of the patients table
MaxPatientOps == 3    \* PatientService calls per behaviour

PIIFields == <<"email", "phone_number", "address", "emergency_contact">>

Null == [plain |-> "", ivs |-> <<>>]

Text(s) == [plain |-> s, ivs |-> <<>>]

IsCiphertext(v) == v.ivs # <<>>

\* DataEncryption.encrypt: falsy data is returned as it is; iv is the IV of
\* the new token.
encrypt(data, iv) ==
    IF data = Null THEN data ELSE [data EXCEPT !.ivs = Append(@, iv)]

\* DataEncryption.decrypt: falsy data is returned as it is; anything that is
\* not a token makes b64decode or Fernet.decrypt raise.
decrypt(encrypted_data) ==
    IF encrypted_data = Null THEN [raised |-> FALSE, value |-> encrypted_data]
    ELSE IF ~IsCiphertext(encrypted_data)
    THEN [raised |-> TRUE, value |-> encrypted_data]
    ELSE [raised |-> FALSE,
          value |-> [encrypted_data EXCEPT
                        !.ivs = SubSeq(@, 1, Len(@) - 1)]]

\* The truthy fields among the first k of PIIFields.
Rank(obj, k) == Cardinality({i \in 1..k : obj[PIIFields[i]] # Null})

\* Patient.encrypt_sensitive_data: every truthy field gets one more layer;
\* the new tokens take the IVs after n.
encrypt_sensitive_data(obj, n) ==
    LET enc(k) == encrypt(obj[PIIFields[k]], n + Rank(obj, k))
    IN  [email |-> enc(1), phone_number |-> enc(2), address |-> enc(3),
         emergency_contact |-> enc(4), first_name |-> obj.first_name,
         last_name |-> obj.last_name, is_active |-> obj.is_active]

\* Patient.decrypt_sensitive_data: the fields are decrypted in order inside
\* one try block; the first decrypt that raises ends the method, the
\* exception is logged and the later fields stay as they are.
decrypt_sensitive_data(obj) ==
    LET ok(k) == \A i \in 1..k : ~decrypt(obj[PIIFields[i]]).raised
        dec(k) == IF ok(k) THEN decrypt(obj[PIIFields[k]]).value
                  ELSE obj[PIIFields[k]]
    IN  [email |-> dec(1), phone_number |-> dec(2), address |-> dec(3),
         emergency_contact |-> dec(4), first_name |-> obj.first_name,
         last_name |-> obj.last_name, is_active |-> obj.is_active]

NullRow == [email |-> Null, phone_number |-> Null, address |-> Null,
            emergency_contact |-> Null, first_name |-> <<>>,
            last_name |-> <<>>, is_active |-> FALSE]

Unloaded == [loaded |-> FALSE, obj |-> NullRow]

Loaded(obj) == [loaded |-> TRUE, obj |-> obj]

\* The identity map with every object expired or gone.
Expired(n) == [i \in 1..n |-> Unloaded]

\* The rows after commit(): the in-memory attributes of every loaded object
\* are flushed.
committed(rows, sess) ==
    [i \in 1..Len(rows) |-> IF sess[i].loaded THEN sess[i].obj ELSE rows[i]]

\* The object a query returns for row i.
load(rows, sess, i) == IF sess[i].loaded THEN sess[i].obj ELSE rows[i]

\* The identity map after commit() and refresh() of object i and the
\* decrypt_sensitive_data() that follows.
refreshed(rows, i) ==
    [k \in 1..Len(rows) |->
        IF k = i THEN Loaded(decrypt_sensitive_data(rows[i])) ELSE Unloaded]

\* A plausible slip: the is_active filter left out (mutant of active_by_id).
active_by_id_unfiltered(rows, patient_id) == patient_id \in 1..Len(rows)

\* filter(Patient.patient_id == patient_id, Patient.is_active == True).first()
\* finds a row.
active_by_id(rows, patient_id) ==
    patient_id \in 1..Len(rows) /\ rows[patient_id].is_active

\* filter(Patient.email == encrypted_email, Patient.patient_id != except_id,
\* Patient.is_active == True).first() finds a row (except_id 0: no such
\* filter).
email_exists(rows, encrypted_email, except_id) ==
    \E i \in 1..Len(rows) :
        /\ i # except_id
        /\ rows[i].email = encrypted_email
        /\ rows[i].is_active

Emails == {"a@x.org", "b@x.org"}

\* PatientCreate data: the names (sequences of characters; the sample gives
\* one name to each email), the email, and the other three PII fields given
\* or not.
CreateData ==
    {[email |-> e, phone_number |-> o[1], address |-> o[2],
      emergency_contact |-> o[3],
      first_name |-> IF e = Text("b@x.org") THEN <<"A", "n", "n">>
                     ELSE <<"J", "o", "h", "n">>,
      last_name |-> <<"D", "o", "e">>] :
        e \in {Null} \cup {Text(m) : m \in Emails},
        o \in {<<Null, Null, Null>>,
               <<Text("+1555123456"), Text("456 Test Ave"), Text("Jane Doe")>>}}

\* PatientUpdate data (exclude_unset): nothing, an email, or is_active.
UpdateData ==
    {d \in [email : {{}} \cup {{Text(m)} : m \in Emails},
            is_active : {{}, {TRUE}, {FALSE}}] :
        d.email = {} \/ d.is_active = {}}

NoPRet == [op |-> "none", id |-> 0, result |-> "none"]

PatientInit ==
    /\ patients = <<>>
    /\ session = <<>>
    /\ ntokens = 0
    /\ pret = NoPRet
    /\ pops = 0
    /\ deactivated = {}

(***************************************************************************)
(* Initial states and specifications.                                      *)
(***************************************************************************)
HandlerInit ==
    /\ error_history = <<>>
    /\ logged = 0
    /\ call = [c \in Callers |-> IdleCall]
    /\ ncalls = 0
    /\ nlogs = 0
    /\ log_level \in LogLevels
    /\ stored_configs = retry_configs

SchedInit ==
    /\ sched_running = FALSE
    /\ jobs = [j \in JobIds |-> "absent"]
    /\ job_history = <<>>
    /\ hist_added = 0
    /\ run = [j \in EtlJobs |-> IdleRun]
    /\ manual = [k \in ManualSlots |-> IdleRun]
    /\ clock = 0
    /\ last_op = NoOp
    /\ nops = 0
    /\ removed = [j \in JobIds |-> "no"]
    /\ held = [j \in JobIds |-> "no"]
    /\ nruns = 0

NoProbe == [fn |-> "none"]

Init == HandlerInit /\ SchedInit /\ PatientInit /\ probe = NoProbe

\* The initial state for runs that never reach log_error: the level is the
\* application's default (config.py: LOG_LEVEL "INFO").
QuietInit == Init /\ log_level = LevelInfo

\* The retry executor: calls of handle_error_with_retry with every work
\* function and with or without an override policy.
Next ==
    \/ \E c \in SoloCallers, w \in Works, o \in Overrides : StartCall(c, w, o)
    \/ \E c \in SoloCallers : Attempt(c)
    \/ \E c \in SoloCallers : Wake(c)
    \/ \E c \in SoloCallers : Complete(c)

Spec == Init /\ [][Next]_vars

(***************************************************************************)
(* The ledger near its capacity: the executor and direct log_error calls,   *)
(* started from a ledger that earlier log_error calls filled to            *)
(* LedgerSlack below the capacity.                                         *)
(***************************************************************************)
PrefilledLedger(n) ==
    [i \in 1..n |-> OutcomeRecord(i, 0, 0, {}, "data_validation", "low")]

LedgerWorks == {[script |-> <<MsgDatabase>>, forever |-> TRUE, is_async |-> TRUE,
     has_name |-> TRUE],
                [script |-> <<MsgTimeout>>, forever |-> FALSE, is_async |-> TRUE,
     has_name |-> TRUE]}

LedgerInit ==
    /\ SchedInit
    /\ PatientInit
    /\ probe = NoProbe
    /\ \E n \in {0, handler_max_history_size - LedgerSlack} :
          /\ error_history = PrefilledLedger(n)
          /\ logged = n
    /\ call = [c \in Callers |-> IdleCall]
    /\ ncalls = 0
    /\ nlogs = 0
    /\ log_level \in LogLevels
    /\ stored_configs = retry_configs

LedgerNext ==
    \/ \E c \in SoloCallers, w \in LedgerWorks : StartCall(c, w, NoOverride)
    \/ \E c \in SoloCallers : Attempt(c)
    \/ \E c \in SoloCallers : Wake(c)
    \/ \E c \in SoloCallers : Complete(c)
    \/ \E e \in DirectErrors : LogError(e)

LedgerSpec == LedgerInit /\ [][LedgerNext]_vars

(***************************************************************************)
(* The scheduler's runs: fires of the full job and of one incremental job  *)
(* (the three incremental job functions differ only in their data type)    *)
(* and manual triggers, with every outcome of the session and of the       *)
(* business calls.                                                         *)
(***************************************************************************)
FiredJobs == OpIds \cap EtlJobs

SchedNext ==
    \/ Start
    \/ \E j \in FiredJobs, sx \in SessionOutcomes, f \in AllFails,
          cx \in CloseOutcomes : FireJob(j, sx, f, cx)
    \/ \E k \in ManualSlots, d \in ManualDataTypes, ok \in BOOLEAN,
          sx \in SessionOutcomes, f \in AllFails,
          cx \in CloseOutcomes : TriggerManualEtl(k, d, ok, sx, f, cx)

SchedSpec == QuietInit /\ [][SchedNext]_vars

(***************************************************************************)
(* Job management: start/stop, pause/resume/remove and trigger fires whose *)
(* collaborators all work.                                                 *)
(***************************************************************************)
JobNext ==
    \/ Start
    \/ \E r \in BOOLEAN : Stop(r)
    \/ \E id \in OpIds : PauseJob(id)
    \/ \E id \in OpIds : ResumeJob(id)
    \/ \E id \in OpIds : RemoveJob(id)
    \/ \E j \in FiredJobs : FireJob(j, "none", {}, "none")

JobSpec == QuietInit /\ [][JobNext]_vars

(***************************************************************************)
(* The job history under direct _add_job_to_history and                    *)
(* _cleanup_job_history calls.                                             *)
(***************************************************************************)
HistNext == AddJobToHistory \/ CleanupJobHistory

HistSpec == QuietInit /\ [][HistNext]_vars

(***************************************************************************)
(* Claims about the retry executor and its ledger.                         *)
(***************************************************************************)
Min(a, b) == IF a < b THEN a ELSE b

\* The records of error_history that call number id appended.
RecordsOfCall(id) == {i \in 1..Len(error_history) : error_history[i].call = id}

Finished(st) == st.pc \in {"returned", "raised"}

\* C1 (as claimed): with an override policy P, a work function that fails on
\* every call is called exactly P.max_attempts times, exactly P.max_attempts
\* records are appended, and then ETLError is raised, whatever the category's
\* own max_attempts is.
C1_OverrideSupersedesCategory ==
    \A c \in Callers :
        LET st == call[c]
            p == st.custom.cfg.max_attempts
        IN  (st.pc # "idle" /\ st.custom.given /\ AlwaysFails(st.work)) =>
               /\ st.work_calls <= p
               /\ st.nrec <= p
               /\ Finished(st) =>
                     (st.pc = "raised" /\ st.work_calls = p /\ st.nrec = p)

\* All failures of the work function fall in one category.
UniformCategory(w) ==
    \A i, j \in 1..Len(w.script) :
        classify_error(w.script[i]) = classify_error(w.script[j])

\* The (coroutine) work function fails on its first k calls, all in one
\* category whose policy allows more than k attempts, and then succeeds.
FailsThenSucceeds(w) ==
    /\ w.is_async
    /\ ~w.forever
    /\ UniformCategory(w)
    /\ Len(w.script) > 0 =>
          Len(w.script) < retry_configs[classify_error(w.script[1])].max_attempts

\* C2: without override, a work function that fails on its first k calls (one
\* category, k < max_attempts) and then succeeds: the call returns the success
\* value after exactly k+1 calls of work and exactly k appended records.
C2_FailsThenSucceeds ==
    \A c \in Callers :
        LET st == call[c]
            k == Len(st.work.script)
        IN  (st.pc # "idle" /\ ~st.custom.given /\ FailsThenSucceeds(st.work)) =>
               /\ st.pc # "raised"
               /\ st.work_calls <= k + 1
               /\ st.nrec <= k
               /\ st.pc = "returned" =>
                     /\ st.work_calls = k + 1
                     /\ st.nrec = k
                     /\ Cardinality(RecordsOfCall(st.id)) = k

\* C3: error_history never holds more than 1000 records, and after n appends
\* it holds exactly the most recent min(n, 1000) records in append order.
C3_LedgerKeepsMostRecent ==
    /\ Len(error_history) <= handler_max_history_size
    /\ Len(error_history) = Min(logged, handler_max_history_size)
    /\ \A i \in 1..Len(error_history) :
          error_history[i].seq = logged - Len(error_history) + i

C3_Witness ==
    /\ logged > handler_max_history_size + 1
    /\ Len(error_history) = handler_max_history_size
    /\ error_history[1].seq = logged - handler_max_history_size + 1
    /\ \E i \in 1..Len(error_history) : error_history[i].call # 0
    /\ \E i \in 1..Len(error_history) :
          error_history[i].call = 0 /\ error_history[i].error_type = "authentication"

(***************************************************************************)
(* Claims about the scheduler's job history and its runs.                  *)
(***************************************************************************)
\* The entries of job_history that invocation number inv appended.
EntriesOf(inv) == {i \in 1..Len(job_history) : job_history[i].inv = inv}

\* C4 (as claimed, and as the history test asserts): after any number of
\* _add_job_to_history calls job_history holds at most max_history_size
\* entries, and they are the most recent ones in append order.
C4_HistoryWithinMaxSize ==
    /\ Len(job_history) <= scheduler_max_history_size
    /\ \A i \in 1..Len(job_history) :
          job_history[i].seq = hist_added - Len(job_history) + i

\* C5 (as claimed): every manual trigger that finishes has appended exactly
\* one Job Run Record, whatever happened inside it.
C5_ManualAppendsExactlyOne ==
    \A k \in ManualSlots :
        manual[k].pc = "done" =>
            /\ manual[k].added = 1
            /\ Cardinality(EntriesOf(manual[k].inv)) = 1

\* The exception that reached the try block of trigger_manual_etl, if any:
\* from opening the session, from the orchestrator call, or from closing the
\* session (which replaces an exception already in flight).
ReachedExc(m) ==
    IF m.session_exc # "none" THEN m.session_exc
    ELSE IF m.close_exc # "none" THEN m.close_exc
    ELSE IF m.data_type # "all" /\ ~m.dates_ok THEN UnboundMsg
    ELSE "none"

\* The exception raised during this run by the session, the orchestrator or
\* a collaborator of the orchestrator, if any.
RaisedExc(m) ==
    IF ReachedExc(m) # "none" THEN ReachedExc(m)
    ELSE IF m.fails # {} THEN BizMsg
    ELSE "none"

\* C6 (as claimed): trigger_manual_etl never raises to its caller; when the
\* session, the orchestrator or any collaborator raises, the caller gets a
\* dict with status "failed" and error = str(exception), and job_history
\* holds a "failed" record of that run.
C6_ManualNeverRaises ==
    \A k \in ManualSlots :
        LET m == manual[k]
        IN  m.pc = "done" =>
               /\ ~m.ret.raised
               /\ RaisedExc(m) # "none" =>
                     /\ m.ret.status = "failed"
                     /\ m.ret.error = RaisedExc(m)
                     /\ \E i \in EntriesOf(m.inv) :
                           job_history[i].status = "failed"

\* C7 (as claimed): whenever a manual trigger appended a "failed" record, the
\* value it returned carries the same status, error text and job_id.
C7_ManualResultMatchesRecord ==
    \A k \in ManualSlots :
        manual[k].pc = "done" =>
            \A i \in EntriesOf(manual[k].inv) :
                job_history[i].status = "failed" =>
                    /\ manual[k].ret.status = "failed"
                    /\ manual[k].ret.error = job_history[i].error
                    /\ manual[k].ret.job_id = job_history[i].job_id

\* The business calls of this run raised on every call.
BusinessAlwaysRaised(r) ==
    IF r.data_type = "all" THEN r.fails = DataTypes ELSE r.data_type \in r.fails

\* C8 (as claimed): a fire of a scheduled job whose business logic raises on
\* every call appends exactly one record, with status "failed" and the
\* failure message as its error.
C8_FailedFireRecorded ==
    \A j \in FiredJobs :
        LET r == run[j]
        IN  (r.pc = "done" /\ r.session_exc = "none" /\ r.close_exc = "none"
                /\ BusinessAlwaysRaised(r)) =>
               /\ r.added = 1
               /\ \A i \in EntriesOf(r.inv) :
                     /\ job_history[i].status = "failed"
                     /\ job_history[i].error = BizMsg

(***************************************************************************)
(* Claims about pause_job / resume_job / remove_job.                       *)
(***************************************************************************)
\* This step is a pause_job / resume_job / remove_job call.
OpStep == nops' = nops + 1

\* This step is an invocation of job j's function.
Invoked(j) == run'[j].inv # run[j].inv

Unregistered(id) == id \notin JobIds \/ jobs[id] = "absent"

\* C9 (as claimed): the three calls return False for an id that is unknown or
\* was removed, and once remove_job(id) has succeeded every later call on id
\* returns False.
C9_RemovedIsTerminal ==
    [][OpStep =>
          LET id == last_op'.id
          IN  (Unregistered(id) \/ (id \in JobIds /\ removed[id] # "no"))
                  => last_op'.ret = FALSE]_vars

\* The parts of C10 that do not depend on how a pause ends: pause_job on a
\* job the scheduler knows returns True and leaves it paused, resume_job
\* makes it active, and neither call touches another job's entry.
PauseResumeSteps ==
    OpStep =>
        LET id == last_op'.id
        IN  /\ (last_op'.op = "pause" /\ LookupJob(id)) =>
                   (last_op'.ret = TRUE /\ jobs'[id] = "paused")
            /\ (last_op'.op = "resume" /\ LookupJob(id)) =>
                   (last_op'.ret = TRUE /\ jobs'[id] = "active")
            /\ last_op'.op \in {"pause", "resume"} =>
                   \A j \in JobIds \ {id} : jobs'[j] = jobs[j]

\* C10 (as claimed): ... and from a successful pause_job(j) until resume_job
\* is called for j, no trigger fire invokes j's function.
C10_PausedUntilResume ==
    [][/\ PauseResumeSteps
       /\ \A j \in EtlJobs : held[j] \in {"held", "restarted"} => ~Invoked(j)]_vars

(***************************************************************************)
(* Manual triggers against the clock: rapid successive trigger_manual_etl  *)
(* calls whose collaborators all work.                                     *)
(***************************************************************************)
IdNext ==
    \/ Tick
    \/ \E k \in ManualSlots, d \in ManualDataTypes :
          TriggerManualEtl(k, d, TRUE, "none", {}, "none")

IdSpec == QuietInit /\ [][IdNext]_vars

\* The entries of job_history that manual triggers appended.
ManualEntries == {i \in 1..Len(job_history) : job_history[i].job_id.kind = "manual_etl"}

\* C11 (as claimed): the job_id values of the records of different manual
\* triggers are pairwise distinct, however quickly the triggers follow each
\* other.
C11_ManualJobIdsDistinct ==
    \A i, j \in ManualEntries :
        job_history[i].inv # job_history[j].inv =>
            job_history[i].job_id # job_history[j].job_id

(***************************************************************************)
(* Further claims about the retry executor.                                *)
(***************************************************************************)
\* The work callable returns a value on every call.
NeverFails(w) == w.script = <<>> /\ ~w.forever

\* C13 (as claimed): for a work callable that returns a value without
\* failing, synchronous or async, the call returns after exactly one call of
\* work and appends no record.
C13_SuccessIsImmediate ==
    \A c \in Callers :
        LET st == call[c]
        IN  (st.pc # "idle" /\ NeverFails(st.work)) =>
               /\ st.pc \in {"calling", "returned"}
               /\ st.nrec = 0
               /\ st.pc = "returned" => st.work_calls = 1

(***************************************************************************)
(* Calls of the handler's pure methods with arguments drawn from bounded   *)
(* sets; probe holds the arguments and the value returned.                 *)
(***************************************************************************)
MaxAttempt == 7       \* largest attempt number handed to should_retry / calculate_delay

\* Keys handed to should_retry: every category, and one the policy store lacks.
PolicyKeys == ETLErrorType \cup {"no_such_category"}

ShouldRetry(error_type, attempt) ==
    /\ probe' = [fn |-> "should_retry", error_type |-> error_type,
                 attempt |-> attempt, result |-> should_retry(error_type, attempt)]
    /\ UNCHANGED handler_vars
    /\ UNCHANGED sched_vars
    /\ UNCHANGED patient_vars

\* The max_attempts the policy table of the specification gives a category.
SpecMaxAttempts(c) ==
    CASE c = "database_connection" -> 5
      [] c = "azure_service"       -> 4
      [] c = "network_timeout"     -> 3
      [] c = "pipeline_execution"  -> 2
      [] c = "data_export"         -> 3
      [] c = "authentication"      -> 2
      [] c = "resource_limit"      -> 1
      [] c = "data_validation"     -> 1
      [] OTHER                     -> 2

\* C14: should_retry(c, a) = (a < max_attempts of c's policy), with the
\* UNKNOWN policy for a key without entry.
C14_ShouldRetryIsAttemptBelowMax ==
    probe.fn = "should_retry" =>
        probe.result = (probe.attempt < SpecMaxAttempts(probe.error_type))

C14_Witness ==
    /\ probe.fn = "should_retry"
    /\ probe.error_type = "database_connection"
    /\ probe.attempt = 5
    /\ probe.result = FALSE

(***************************************************************************)
(* classify_error on messages of mixed case.  A message is the set of its  *)
(* keyword occurrences, each written in lower or in upper case; lower()    *)
(* is str(error).lower(), after which `in` finds an occurrence whatever    *)
(* its case was.                                                           *)
(***************************************************************************)
Occurrences == [kw : Keywords, upper : BOOLEAN]

\* Messages with no, one or two keyword occurrences.
Messages == {{}} \cup {{a, b} : a \in Occurrences, b \in Occurrences}

lower(m) == {o.kw : o \in m}

ClassifyError(m) ==
    /\ probe' = [fn |-> "classify_error", msg |-> m,
                 result |-> classify_error(lower(m))]
    /\ UNCHANGED handler_vars
    /\ UNCHANGED sched_vars
    /\ UNCHANGED patient_vars

\* The keyword groups of the specification, in priority order.
SpecGroups ==
    << [kws |-> {"connection", "database"},          cat |-> "database_connection"],
       [kws |-> {"azure", "blob", "synapse"},        cat |-> "azure_service"],
       [kws |-> {"timeout", "timed out"},            cat |-> "network_timeout"],
       [kws |-> {"pipeline", "data factory"},        cat |-> "pipeline_execution"],
       [kws |-> {"export", "upload"},                cat |-> "data_export"],
       [kws |-> {"auth", "credential", "permission"}, cat |-> "authentication"],
       [kws |-> {"limit", "quota", "throttle"},      cat |-> "resource_limit"],
       [kws |-> {"validation", "invalid"},           cat |-> "data_validation"] >>

GroupHits(i, m) == \E o \in m : o.kw \in SpecGroups[i].kws

\* C15: classify_error returns one category for every message: that of the
\* first keyword group, in the fixed priority order, with a keyword in the
\* message whatever its case, and UNKNOWN when no group has one; so a message
\* with "timeout" and no connection/database/azure/blob/synapse keyword is
\* NETWORK_TIMEOUT.
C15_FirstMatchPriority ==
    probe.fn = "classify_error" =>
        /\ probe.result \in ETLErrorType
        /\ \A i \in 1..Len(SpecGroups) :
              (GroupHits(i, probe.msg) /\ \A j \in 1..(i-1) : ~GroupHits(j, probe.msg))
                  => probe.result = SpecGroups[i].cat
        /\ (\A i \in 1..Len(SpecGroups) : ~GroupHits(i, probe.msg))
              => probe.result = "unknown"
        /\ ((\E o \in probe.msg : o.kw = "timeout")
               /\ ~GroupHits(1, probe.msg) /\ ~GroupHits(2, probe.msg))
              => probe.result = "network_timeout"

C15_Witness ==
    /\ probe.fn = "classify_error"
    /\ probe.msg = {[kw |-> "timeout", upper |-> TRUE],
                    [kw |-> "pipeline", upper |-> FALSE]}
    /\ probe.result = "network_timeout"

(***************************************************************************)
(* calculate_delay.  Delays are in tenths of a second.  exponential_base   *)
(* is a power of two, held as its exponent (exponential_base_log2 0 is     *)
(* base 1.0, 1 is base 2.0, 512 is base 2.0**512), so that                 *)
(* exponential_base ** n is the exponent product.  A Python float power    *)
(* whose result reaches 2**1024 raises OverflowError.                      *)
(***************************************************************************)
FloatMaxExp == 1024

DelayConfigs ==
    [base_delay : {10, 20}, max_delay : {100, 600},
     exponential_base_log2 : {0, 1, 512}, jitter : BOOLEAN]

\* random.random() lies in [0, 1): the samples 0, 1/4, 1/2, 3/4.
RandomQuarters == 0..3

\* log2 of exponential_base ** n, or the error the float power raises.
float_pow(exponential_base_log2, n) ==
    IF exponential_base_log2 * n >= FloatMaxExp
    THEN [raised |-> "OverflowError", log2 |-> 0]
    ELSE [raised |-> "none", log2 |-> exponential_base_log2 * n]

\* min(base_delay * 2 ** k, max_delay); 2 ** 20 tenths is above every
\* max_delay of DelayConfigs.
capped_delay(config, k) ==
    IF k >= 20 THEN config.max_delay
    ELSE Min(config.base_delay * 2 ^ k, config.max_delay)

\* The value of `delay` before the jitter branch.
pre_jitter(attempt, config) ==
    LET p == float_pow(config.exponential_base_log2, attempt - 1)
    IN  IF p.raised # "none" THEN [raised |-> p.raised, delay |-> 0]
        ELSE [raised |-> "none", delay |-> capped_delay(config, p.log2)]

\* The returned delay as the fraction num / den of a tenth of a second;
\* r is the value of random.random() in quarters.
calculate_delay(attempt, config, r) ==
    LET pre == pre_jitter(attempt, config)
    IN  IF pre.raised # "none" THEN [raised |-> pre.raised, num |-> 0, den |-> 1]
        ELSE IF config.jitter
             THEN [raised |-> "none", num |-> pre.delay * (4 + r), den |-> 8]
             ELSE [raised |-> "none", num |-> pre.delay, den |-> 1]

CalculateDelay(attempt, config, r) ==
    /\ ~config.jitter => r = 0
    /\ probe' = [fn |-> "calculate_delay", attempt |-> attempt, config |-> config,
                 pre |-> pre_jitter(attempt, config),
                 pre_next |-> pre_jitter(attempt + 1, config),
                 result |-> calculate_delay(attempt, config, r)]
    /\ UNCHANGED handler_vars
    /\ UNCHANGED sched_vars
    /\ UNCHANGED patient_vars

\* C16: for every attempt >= 1 and every policy with base_delay > 0,
\* exponential_base >= 1 and max_delay > 0, calculate_delay returns a value
\* that is at most max_delay and, with jitter on, at least half the
\* pre-jitter delay, and the pre-jitter delay does not decrease from one
\* attempt to the next.
C16_DelayBoundedAndMonotone ==
    probe.fn = "calculate_delay" =>
        /\ probe.result.raised = "none"
        /\ probe.result.num <= probe.config.max_delay * probe.result.den
        /\ probe.config.jitter => 2 * probe.result.num >= probe.pre.delay * probe.result.den
        /\ probe.pre_next.raised = "none" => probe.pre.delay <= probe.pre_next.delay

(***************************************************************************)
(* check_permission (app/core/authorization.py).  A user is its role and   *)
(* is_active; required_roles is a list, read only through `in`;            *)
(* resource_id is None or an id.                                           *)
(***************************************************************************)
UserRole == {"admin", "doctor", "staff", "patient"}

Users == [role : UserRole, is_active : BOOLEAN]

ResourceIds == {{}, {"resource-1"}}

\* A plausible slip: the admin branch placed before the is_active check
\* (mutant of check_permission).
check_permission_admin_first(user, required_roles, resource_id) ==
    IF user.role = "admin" THEN TRUE
    ELSE IF ~user.is_active THEN FALSE
    ELSE IF user.role \in required_roles THEN TRUE
    ELSE IF user.role = "patient" /\ resource_id # {}
    THEN "patient" \in required_roles
    ELSE FALSE

check_permission(user, required_roles, resource_id) ==
    IF ~user.is_active THEN FALSE
    ELSE IF user.role = "admin" THEN TRUE
    ELSE IF user.role \in required_roles THEN TRUE
    ELSE IF user.role = "patient" /\ resource_id # {}
    THEN "patient" \in required_roles
    ELSE FALSE

CheckPermission(user, required_roles, resource_id) ==
    /\ probe' = [fn |-> "check_permission", user |-> user,
                 required_roles |-> required_roles, resource_id |-> resource_id,
                 result |-> check_permission(user, required_roles, resource_id)]
    /\ UNCHANGED handler_vars
    /\ UNCHANGED sched_vars
    /\ UNCHANGED patient_vars

PureNext ==
    \/ \E c \in PolicyKeys, a \in 1..MaxAttempt : ShouldRetry(c, a)
    \/ \E m \in Messages : ClassifyError(m)
    \/ \E a \in 1..MaxAttempt, c \in DelayConfigs, r \in RandomQuarters :
          CalculateDelay(a, c, r)
    \/ \E u \in Users, rr \in SUBSET UserRole, id \in ResourceIds :
          CheckPermission(u, rr, id)

PureSpec == QuietInit /\ [][PureNext]_vars

(***************************************************************************)
(* get_error_history and get_error_statistics.  An optional argument is    *)
(* the empty set (None) or a singleton; `since` is a clock tick.  The      *)
(* `since` filter compares the ISO strings: character by character, a      *)
(* proper prefix being the smaller.                                        *)
(***************************************************************************)
RecentWindow == 10

None == {}

Value(opt) == CHOOSE v \in opt : TRUE

\* a >= b for two isoformat() strings.
IsoGeq(a, b) ==
    \/ a[1] > b[1]
    \/ /\ a[1] = b[1]
       /\ \/ Len(b) = 1
          \/ Len(a) = 2 /\ a[2] >= b[2]

\* filtered_errors[-limit:] for a positive limit.
LastN(q, n) == IF n >= Len(q) THEN q ELSE SubSeq(q, Len(q) - n + 1, Len(q))

get_error_history(history, limit, error_type, severity, since) ==
    LET ByType(e) == e.error_type = Value(error_type)
        BySeverity(e) == e.severity = Value(severity)
        BySince(e) == IsoGeq(e.timestamp, isoformat(Value(since)))
        f1 == IF error_type # None THEN SelectSeq(history, ByType) ELSE history
        f2 == IF severity # None THEN SelectSeq(f1, BySeverity) ELSE f1
        f3 == IF since # None THEN SelectSeq(f2, BySince) ELSE f2
    IN  IF limit # None /\ Value(limit) # 0 THEN LastN(f3, Value(limit)) ELSE f3

\* by_type: the dict the counting loop builds over error.get("error_type").
CountByType(errors) ==
    [k \in {errors[i].error_type : i \in 1..Len(errors)} |->
        Cardinality({i \in 1..Len(errors) : errors[i].error_type = k})]

\* by_severity: the dict the counting loop builds over error.get("severity").
CountBySeverity(errors) ==
    [k \in {errors[i].severity : i \in 1..Len(errors)} |->
        Cardinality({i \in 1..Len(errors) : errors[i].severity = k})]

\* A plausible slip: the critical records of the whole period, not of its
\* last 10 records (mutant of get_error_statistics).
get_error_statistics_unwindowed(history, since) ==
    LET errors == get_error_history(history, None, None, None, since)
        IsCritical(e) == e.severity = "critical"
    IN  IF errors = <<>>
        THEN [total_errors |-> 0, by_type |-> <<>>, by_severity |-> <<>>,
              recent_critical |-> <<>>]
        ELSE [total_errors |-> Len(errors),
              by_type |-> CountByType(errors),
              by_severity |-> CountBySeverity(errors),
              recent_critical |-> SelectSeq(errors, IsCritical),
              period_start |-> since,
              period_end |-> isoformat(clock)]

get_error_statistics(history, since) ==
    LET errors == get_error_history(history, None, None, None, since)
        IsCritical(e) == e.severity = "critical"
    IN  IF errors = <<>>
        THEN [total_errors |-> 0, by_type |-> <<>>, by_severity |-> <<>>,
              recent_critical |-> <<>>]
        ELSE [total_errors |-> Len(errors),
              by_type |-> CountByType(errors),
              by_severity |-> CountBySeverity(errors),
              recent_critical |-> SelectSeq(LastN(errors, RecentWindow), IsCritical),
              period_start |-> since,
              period_end |-> isoformat(clock)]

\* Arguments handed to the two queries.
Limits == {None, {0}, {1}, {RecentWindow + 1}}
TypeFilters == {None, {"authentication"}}
SeverityFilters == {None, {"critical"}}
Sinces == {None} \cup {{t} : t \in 0..MaxClock}

GetErrorHistory(limit, error_type, severity, since) ==
    /\ probe' = [fn |-> "get_error_history", limit |-> limit,
                 error_type |-> error_type, severity |-> severity, since |-> since,
                 result |-> get_error_history(error_history, limit, error_type,
                                              severity, since)]
    /\ UNCHANGED handler_vars
    /\ UNCHANGED sched_vars
    /\ UNCHANGED patient_vars

GetErrorStatistics(since) ==
    /\ probe' = [fn |-> "get_error_statistics", since |-> since,
                 result |-> get_error_statistics(error_history, since)]
    /\ UNCHANGED handler_vars
    /\ UNCHANGED sched_vars
    /\ UNCHANGED patient_vars

\* A ledger of RecentWindow records logged at tick 0 whose oldest record is
\* critical.
QueryLedger ==
    [i \in 1..RecentWindow |->
        IF i = 1 THEN OutcomeRecord(i, 0, 0, {}, "authentication", "critical")
        ELSE OutcomeRecord(i, 0, 0, {}, "data_validation", "low")]

QueryInit ==
    /\ SchedInit
    /\ PatientInit
    /\ probe = NoProbe
    /\ log_level = LevelOff
    /\ stored_configs = retry_configs
    /\ \E h \in {<<>>, QueryLedger} :
          /\ error_history = h
          /\ logged = Len(h)
    /\ call = [c \in Callers |-> IdleCall]
    /\ ncalls = 0
    /\ nlogs = 0

QueryNext ==
    \/ \E e \in DirectErrors : LogError(e)
    \/ Tick
    \/ \E l \in Limits, t \in TypeFilters, sv \in SeverityFilters, sn \in Sinces :
          GetErrorHistory(l, t, sv, sn)
    \/ \E sn \in Sinces : GetErrorStatistics(sn)

QuerySpec == QueryInit /\ [][QueryNext]_vars

\* The ledger's writers with get_error_statistics as the only reader.
StatsNext ==
    \/ \E e \in DirectErrors : LogError(e)
    \/ Tick
    \/ \E sn \in Sinces : GetErrorStatistics(sn)

StatsSpec == QueryInit /\ [][StatsNext]_vars

\* The tick a timestamp was taken at.
TickOf(ts) == ts[1] * TicksPerSecond + (IF Len(ts) = 2 THEN ts[2] ELSE 0)

\* The positions of error_history whose record is not older than since.
Passing(since) ==
    {i \in 1..Len(error_history) :
        since # None => TickOf(error_history[i].timestamp) >= Value(since)}

\* The k-th smallest element of a set of positions.
RECURSIVE Nth(_, _)
Nth(S, k) ==
    LET m == CHOOSE x \in S : \A y \in S : x <= y
    IN  IF k = 1 THEN m ELSE Nth(S \ {m}, k - 1)

\* The records at a set of positions, in ledger order.
Pick(S) == [k \in 1..Cardinality(S) |-> error_history[Nth(S, k)]]

\* The last n positions of a set of positions.
Latest(S, n) == {i \in S : Cardinality({j \in S : j > i}) < n}

RECURSIVE SumOver(_)
SumOver(f) ==
    IF DOMAIN f = {} THEN 0
    ELSE LET k == CHOOSE x \in DOMAIN f : TRUE
         IN  f[k] + SumOver([x \in DOMAIN f \ {k} |-> f[x]])

\* This step is a call of query fn.
Asks(fn) == probe' # probe /\ probe'.fn = fn

\* C17: get_error_statistics(since) counts exactly the records not older than
\* since: total_errors is their number, the by_type counts and the
\* by_severity counts each sum to it, recent_critical is the critical records
\* among the 10 most recent of them, and with no such record the result is
\* exactly {total_errors: 0, by_type: {}, by_severity: {}, recent_critical: []}.
C17_StatisticsReflectLedger ==
    [][Asks("get_error_statistics") =>
         LET res == probe'.result
             P == Passing(probe'.since)
         IN  /\ res.total_errors = Cardinality(P)
             /\ SumOver(res.by_type) = res.total_errors
             /\ SumOver(res.by_severity) = res.total_errors
             /\ res.recent_critical =
                   Pick({i \in Latest(P, RecentWindow) :
                            error_history[i].severity = "critical"})
             /\ P = {} => res = [total_errors |-> 0, by_type |-> <<>>,
                                 by_severity |-> <<>>, recent_critical |-> <<>>]]_vars

\* A period of more than 10 records whose only critical record is older
\* than its last 10, another with a critical record inside them.
C17_Witness ==
    /\ probe.fn = "get_error_statistics"
    /\ probe.since = None
    /\ Len(error_history) = RecentWindow + 2
    /\ probe.result.total_errors = Len(error_history)
    /\ error_history[1].severity = "critical"
    /\ error_history[RecentWindow + 1].severity = "critical"
    /\ Len(probe.result.recent_critical) = 1
    /\ probe.result.by_severity["critical"] = 2

\* C18: get_error_history returns the records meeting every supplied
\* predicate, in ledger order; with a limit N >= 0 exactly the most recent
\* min(N, k) of the k matching records; and it leaves error_history as it was.
C18_HistoryFilterAndLimit ==
    [][Asks("get_error_history") =>
         LET a == probe'
             M == {i \in Passing(a.since) :
                      /\ a.error_type # None =>
                            error_history[i].error_type = Value(a.error_type)
                      /\ a.severity # None =>
                            error_history[i].severity = Value(a.severity)}
         IN  /\ a.result = Pick(IF a.limit = None THEN M
                                ELSE Latest(M, Value(a.limit)))
             /\ error_history' = error_history]_vars

(***************************************************************************)
(* Claims about the scheduler's lifecycle.                                 *)
(***************************************************************************)
\* This step is a start() call that returned.
StartReturns == last_op'.op = "start" /\ ~sched_running

\* This step is a stop() call that returned.
StopReturns ==
    last_op'.op = "stop" /\ (last_op.op # "stop" \/ sched_running' # sched_running)

ConcWorks ==
    {[script |-> <<MsgTimeout>>, forever |-> FALSE, is_async |-> TRUE,
     has_name |-> TRUE],
     [script |-> <<MsgTimeout, MsgTimeout>>, forever |-> FALSE, is_async |-> TRUE,
     has_name |-> TRUE],
     [script |-> <<MsgValidation>>, forever |-> TRUE, is_async |-> TRUE,
     has_name |-> TRUE]}

ConcNext ==
    \/ \E c \in Callers, w \in ConcWorks, o \in Overrides : StartCall(c, w, o)
    \/ \E c \in Callers : Attempt(c)
    \/ \E c \in Callers : Wake(c)
    \/ \E c \in Callers : Complete(c)

ConcSpec == Init /\ [][ConcNext]_vars

\* The attempts of an activation that have failed so far.
FailedAttempts(st) == IF st.pc = "returned" THEN st.work_calls - 1 ELSE st.work_calls

\* C20: concurrent calls lose no record: error_history holds one record per
\* failed attempt of every call, and the records of one call stand in
\* increasing attempt order 1, 2, 3, ...
C20_NoRecordLost ==
    \A c \in Callers :
        LET st == call[c]
            R == RecordsOfCall(st.id)
        IN  st.pc # "idle" =>
               /\ Cardinality(R) = FailedAttempts(st)
               /\ \A i \in R :
                     error_history[i].attempt = Cardinality({j \in R : j <= i})

(***************************************************************************)
(* Claims about the path from a job to the retry executor.  The job        *)
(* functions and trigger_manual_etl call ETLOrchestrator directly; neither *)
(* scheduler.py nor synapse_integration.py refers to ETLErrorHandler, so   *)
(* FireJob and TriggerManualEtl leave the error ledger unchanged.          *)
(***************************************************************************)
\* The business logic of this finished run failed for some data type and the
\* run's job record has been appended.
RecordedFailedRun(r) == r.pc = "done" /\ r.fails # {} /\ r.added >= 1

\* C21 (as claimed): when the business logic called by a scheduled or manually
\* triggered job fails, at least one outcome record is in the error ledger
\* by the time the scheduler has appended the job record of that run.
C21_JobFailureReachesLedger ==
    /\ \A j \in FiredJobs : RecordedFailedRun(run[j]) => Len(error_history) >= 1
    /\ \A k \in ManualSlots : RecordedFailedRun(manual[k]) => Len(error_history) >= 1

(***************************************************************************)
(* The two entry points of the retry executor: handle_error_with_retry on  *)
(* the handler the caller holds (the module's etl_error_handler), and a    *)
(* function wrapped by with_etl_error_handling.  The logger is switched    *)
(* off, so that log_error reaches its append.                              *)
(***************************************************************************)
WrapInit == Init /\ log_level = LevelOff

\* A functools.partial and an object with an async __call__: the first
\* fails with a validation error on every call, the second with a timeout.
NamelessWorks ==
    {[script |-> <<m>>, forever |-> TRUE, is_async |-> TRUE, has_name |-> FALSE] :
        m \in {MsgValidation, MsgTimeout}}

WrapNext ==
    \/ \E c \in SoloCallers, w \in Works \cup NamelessWorks, o \in Overrides :
          StartCall(c, w, o)
    \/ \E c \in SoloCallers, w \in Works, o \in Overrides : WrappedCall(c, w, o)
    \/ \E c \in SoloCallers : Attempt(c)
    \/ \E c \in SoloCallers : Wake(c)
    \/ \E c \in SoloCallers : Complete(c)

WrapSpec == WrapInit /\ [][WrapNext]_vars

\* The ledger keeps what it holds while it is below capacity.
LedgerKeeps ==
    Len(error_history) < handler_max_history_size =>
       /\ Len(error_history') >= Len(error_history)
       /\ SubSeq(error_history', 1, Len(error_history)) = error_history

\* C22 (as claimed): when a call made through either entry point has returned
\* or raised, a ledger that can be queried holds one record per failed
\* attempt of the call, and the records stay while the ledger is below
\* capacity.
C22_FailedAttemptsQueryable ==
    /\ [](\A c \in SoloCallers :
            Finished(call[c]) =>
               Cardinality(RecordsOfCall(call[c].id)) = FailedAttempts(call[c]))
    /\ [][LedgerKeeps]_vars

(***************************************************************************)
(* Claims about the stored policies.                                       *)
(***************************************************************************)
\* C23: an override policy leaves the handler's retry_configs as __init__
\* set them, and a call without override retries and gives up by the
\* default policy of the failure's category: it goes to sleep after a failed
\* attempt only below the default max_attempts and raises ETLError only at
\* or above it.
C23_OverrideLeavesDefaults ==
    /\ stored_configs = retry_configs
    /\ \A c \in Callers :
          LET st == call[c]
              R == RecordsOfCall(st.id)
          IN  ~st.custom.given =>
                 /\ st.pc = "sleeping" =>
                       \E i \in R :
                          /\ error_history[i].attempt = st.attempt
                          /\ st.attempt <
                                retry_configs[error_history[i].error_type].max_attempts
                 /\ (st.pc = "raised" /\ st.error.exc = "ETLError") =>
                       st.error.attempt >=
                          retry_configs[st.error.error_type].max_attempts

\* C23 witness: call 1 was given the override (max_attempts 2), failed with
\* a timeout and has returned; call 2, without override, has then failed
\* twice with timeouts and sleeps before its third attempt.
C23_Witness ==
    /\ call[1].id = 1 /\ call[1].custom.given /\ call[1].pc = "returned"
    /\ call[2].id = 2 /\ ~call[2].custom.given
    /\ call[2].pc = "sleeping" /\ call[2].attempt = 2
    /\ Len(error_history) = 3
    /\ error_history[1].call = 1 /\ error_history[1].error_type = "network_timeout"
    /\ error_history[2].call = 2 /\ error_history[3].call = 2
    /\ error_history[3].error_type = "network_timeout"
    /\ stored_configs = retry_configs

(***************************************************************************)
(* Claims about the severity of outcome records.  One failure message per  *)
(* category (the first keyword of its classifier branch; no keyword for    *)
(* unknown), work functions that fail with it on every call, and the       *)
(* handler's two read methods.                                             *)
(***************************************************************************)
CategoryMsgs == {{"database"}, {"azure"}, {"timeout"}, {"pipeline"}, {"export"},
                 {"auth"}, {"limit"}, {"validation"}, {}}

CategoryWorks ==
    {[script |-> <<m>>, forever |-> TRUE, is_async |-> TRUE,
     has_name |-> TRUE] : m \in CategoryMsgs}

SeverityNext ==
    \/ \E c \in SoloCallers, w \in CategoryWorks : StartCall(c, w, NoOverride)
    \/ \E c \in SoloCallers : Attempt(c)
    \/ \E c \in SoloCallers : Wake(c)
    \/ \E c \in SoloCallers : Complete(c)
    \/ GetErrorHistory(None, None, None, None)
    \/ GetErrorStatistics(None)

SeveritySpec == Init /\ [][SeverityNext]_vars

\* The severity table of the specification.
SpecSeverity(error_type) ==
    IF error_type = "authentication" THEN "critical"
    ELSE IF error_type \in {"database_connection", "azure_service",
                            "pipeline_execution"} THEN "high"
    ELSE IF error_type \in {"resource_limit", "network_timeout", "data_export",
                            "unknown"} THEN "medium"
    ELSE "low"

\* Every record of the ledger that is still in the ledger after the step has
\* the category and severity it had.
RecordsKeepClass ==
    \A i \in 1..Len(error_history), j \in 1..Len(error_history') :
        error_history[i].seq = error_history'[j].seq =>
           /\ error_history'[j].error_type = error_history[i].error_type
           /\ error_history'[j].severity = error_history[i].severity

\* C24: every record appended by handle_error_with_retry has the severity the
\* table gives its category, and no operation on the handler changes the
\* category or severity of a record of the ledger.
C24_SeverityFixedByCategory ==
    /\ [](\A i \in 1..Len(error_history) :
            error_history[i].call # 0 =>
               /\ error_history[i].error_type \in ETLErrorType
               /\ error_history[i].severity =
                     SpecSeverity(error_history[i].error_type))
    /\ [][RecordsKeepClass]_vars

\* C24 witness: the ledger holds the critical record of a call that failed
\* with an authentication error and, after it, the record of a later call
\* that failed with a database error; get_error_statistics has been asked.
C24_Witness ==
    /\ Len(error_history) >= 2
    /\ error_history[1].call = 1
    /\ error_history[1].error_type = "authentication"
    /\ error_history[1].severity = "critical"
    /\ error_history[Len(error_history)].call = 2
    /\ error_history[Len(error_history)].error_type = "database_connection"
    /\ error_history[Len(error_history)].severity = "high"
    /\ probe.fn = "get_error_statistics"
    /\ probe.result.total_errors = Len(error_history)

(***************************************************************************)
(* PatientService: every method is one step; all calls share the session   *)
(* until CloseSession.                                                     *)
(***************************************************************************)
CreatePatient(data) ==
    /\ pops < MaxPatientOps
    /\ Len(patients) < MaxPatients
    /\ pops' = pops + 1
    /\ LET checks == data.email # Null
           n == IF checks THEN ntokens + 1 ELSE ntokens
           encrypted_email == encrypt(data.email, ntokens + 1)
           db_patient == [email |-> data.email,
                          phone_number |-> data.phone_number,
                          address |-> data.address,
                          emergency_contact |-> data.emergency_contact,
                          first_name |-> data.first_name,
                          last_name |-> data.last_name,
                          is_active |-> TRUE]
           id == Len(patients) + 1
           rows == Append(committed(patients, session),
                          encrypt_sensitive_data(db_patient, n))
       IN  IF checks /\ email_exists(patients, encrypted_email, 0)
           THEN /\ patients' = patients
                /\ session' = Expired(Len(patients))
                /\ ntokens' = n
                /\ pret' = [op |-> "create_patient", id |-> 0,
                            result |-> "ValueError", email |-> data.email.plain]
           ELSE /\ patients' = rows
                /\ session' = refreshed(rows, id)
                /\ ntokens' = n + Rank(db_patient, Len(PIIFields))
                /\ pret' = [op |-> "create_patient", id |-> id,
                            result |-> "patient", email |-> data.email.plain,
                            obj |-> decrypt_sensitive_data(rows[id])]
    /\ UNCHANGED deactivated
    /\ UNCHANGED <<handler_vars, sched_vars, probe>>

GetPatientById(patient_id) ==
    /\ pops < MaxPatientOps
    /\ pops' = pops + 1
    /\ IF ~active_by_id(patients, patient_id)
       THEN /\ session' = session
            /\ pret' = [op |-> "get_patient_by_id", id |-> patient_id,
                        result |-> "None"]
       ELSE LET patient == decrypt_sensitive_data(
                               load(patients, session, patient_id))
            IN  /\ session' = [session EXCEPT ![patient_id] = Loaded(patient)]
                /\ pret' = [op |-> "get_patient_by_id", id |-> patient_id,
                            result |-> "patient", obj |-> patient]
    /\ UNCHANGED <<patients, ntokens, deactivated>>
    /\ UNCHANGED <<handler_vars, sched_vars, probe>>

UpdatePatient(patient_id, data) ==
    /\ pops < MaxPatientOps
    /\ pops' = pops + 1
    /\ IF ~active_by_id(patients, patient_id)
       THEN /\ pret' = [op |-> "update_patient", id |-> patient_id,
                        result |-> "None"]
            /\ UNCHANGED <<patients, session, ntokens>>
       ELSE LET checks == data.email # {}
                email == CHOOSE v \in data.email : TRUE
                n == IF checks THEN ntokens + 1 ELSE ntokens
                encrypted_email == encrypt(email, ntokens + 1)
                db_patient == load(patients, session, patient_id)
                assigned ==
                    [db_patient EXCEPT
                        !.email = IF data.email = {} THEN @ ELSE email,
                        !.is_active = IF data.is_active = {} THEN @
                                      ELSE CHOOSE b \in data.is_active : TRUE]
                rows == committed(patients,
                            [session EXCEPT ![patient_id] =
                                Loaded(encrypt_sensitive_data(assigned, n))])
            IN  IF checks /\ email_exists(patients, encrypted_email, patient_id)
                THEN /\ patients' = patients
                     /\ session' = Expired(Len(patients))
                     /\ ntokens' = n
                     /\ pret' = [op |-> "update_patient", id |-> patient_id,
                                 result |-> "ValueError", email |-> email.plain]
                ELSE /\ patients' = rows
                     /\ session' = refreshed(rows, patient_id)
                     /\ ntokens' = n + Rank(assigned, Len(PIIFields))
                     /\ pret' = [op |-> "update_patient", id |-> patient_id,
                                 result |-> "patient",
                                 email |-> IF checks THEN email.plain ELSE "",
                                 obj |-> decrypt_sensitive_data(rows[patient_id])]
    /\ UNCHANGED deactivated
    /\ UNCHANGED <<handler_vars, sched_vars, probe>>

(***************************************************************************)
(* search_patients.  String criteria are sequences of characters.          *)
(***************************************************************************)
\* str.lower() on the letters the criteria and the names of the model use.
str_lower(str) ==
    [i \in 1..Len(str) |->
        CASE str[i] = "A" -> "a" [] str[i] = "D" -> "d" [] str[i] = "J" -> "j"
          [] str[i] = "O" -> "o" [] OTHER -> str[i]]

\* pattern in value
Contains(value, pattern) ==
    \E i \in 0..(Len(value) - Len(pattern)) :
        SubSeq(value, i + 1, i + Len(pattern)) = pattern

\* sanitize_input: the dangerous characters removed (the double quote and
\* the backquote are written by name; the cut at 1000 characters never
\* applies: the schema allows 50).
sanitize_input(data) ==
    LET dangerous_chars ==
            {"<", ">", "DQUOTE", "'", "&", ";", "(", ")", "|", "BACKQUOTE"}
    IN  SelectSeq(data, LAMBDA c : c \notin dangerous_chars)

\* validate_sql_injection(criteria.model_dump(exclude_unset=True)): no string
\* value holds a pattern.
validate_sql_injection(criteria) ==
    LET sql_injection_patterns ==
    {<<"u", "n", "i", "o", "n">>, <<"s", "e", "l", "e", "c", "t">>,
     <<"i", "n", "s", "e", "r", "t">>, <<"u", "p", "d", "a", "t", "e">>,
     <<"d", "e", "l", "e", "t", "e">>, <<"d", "r", "o", "p">>,
     <<"c", "r", "e", "a", "t", "e">>, <<"a", "l", "t", "e", "r">>,
     <<"e", "x", "e", "c">>, <<"e", "x", "e", "c", "u", "t", "e">>,
     <<"-", "-">>, <<"/", "*">>, <<"*", "/">>, <<"x", "p", "_">>,
     <<"s", "p", "_">>}
    IN  \A value \in {criteria.first_name, criteria.last_name} :
            \A pattern \in sql_injection_patterns :
                ~Contains(str_lower(value), pattern)

\* column.ilike(f"%{name}%") for a name without % and _
ilike(column, name) == Contains(str_lower(column), str_lower(name))

\* The rows the filters of search_patients select: each criterion that is
\* set adds a filter; the PII criteria are not used by the query.
matching(rows, criteria) ==
    {i \in 1..Len(rows) :
        /\ criteria.patient_id # {} => i \in criteria.patient_id
        /\ criteria.first_name # <<>> =>
              ilike(rows[i].first_name, sanitize_input(criteria.first_name))
        /\ criteria.last_name # <<>> =>
              ilike(rows[i].last_name, sanitize_input(criteria.last_name))
        /\ criteria.is_active # {} => rows[i].is_active \in criteria.is_active}

\* The number of rows query.offset(offset).limit(size) returns out of total.
PageLen(total, page, size) ==
    LET offset == (page - 1) * size
    IN  IF total <= offset THEN 0
        ELSE IF total - offset < size THEN total - offset ELSE size

\* PatientSearchCriteria: patient_id and is_active unset ({}) or set, the
\* names unset (<<>>; the schema rejects an empty string) or set, page >= 1
\* and 1 <= size <= 100.  is_active is True unless the caller sets it.  At
\* most one of patient_id, first_name and last_name is set.
SearchCriteria ==
    {[patient_id |-> f[1], first_name |-> f[2], last_name |-> f[3],
      is_active |-> a, page |-> p[1], size |-> p[2]] :
        f \in {<<{}, <<>>, <<>>>>, <<{1}, <<>>, <<>>>>,
               <<{}, <<"O", "'", "h">>, <<>>>>, <<{}, <<"-", "-">>, <<>>>>,
               <<{}, <<>>, <<"z">>>>},
        a \in {{}, {TRUE}, {FALSE}},
        p \in {<<1, 10>>, <<1, 1>>, <<2, 1>>}}

\* shown is the page of rows the query returns: the query has no ORDER BY,
\* so which of the matching rows fall in the page is the database's choice.
SearchPatients(criteria, shown) ==
    /\ pops < MaxPatientOps
    /\ pops' = pops + 1
    /\ IF ~validate_sql_injection(criteria)
       THEN /\ shown = {}
            /\ session' = session
            /\ pret' = [op |-> "search_patients", id |-> 0,
                        result |-> "ValueError"]
       ELSE LET found == matching(patients, criteria)
                total == Cardinality(found)
            IN  /\ shown \subseteq found
                /\ Cardinality(shown) = PageLen(total, criteria.page, criteria.size)
                /\ session' =
                      [i \in 1..Len(patients) |->
                          IF i \in shown
                          THEN Loaded(decrypt_sensitive_data(load(patients, session, i)))
                          ELSE session[i]]
                /\ pret' = [op |-> "search_patients", id |-> 0,
                            result |-> "list", total |-> total]
    /\ UNCHANGED <<patients, ntokens, deactivated>>
    /\ UNCHANGED <<handler_vars, sched_vars, probe>>

DeactivatePatient(patient_id) ==
    /\ pops < MaxPatientOps
    /\ pops' = pops + 1
    /\ IF ~active_by_id(patients, patient_id)
       THEN /\ pret' = [op |-> "deactivate_patient", id |-> patient_id,
                        result |-> "None"]
            /\ UNCHANGED <<patients, session, deactivated>>
       ELSE LET db_patient == [load(patients, session, patient_id) EXCEPT
                                  !.is_active = FALSE]
                rows == committed(patients,
                            [session EXCEPT ![patient_id] = Loaded(db_patient)])
            IN  /\ patients' = rows
                /\ session' = refreshed(rows, patient_id)
                /\ deactivated' = deactivated \cup {patient_id}
                /\ pret' = [op |-> "deactivate_patient", id |-> patient_id,
                            result |-> "patient",
                            obj |-> decrypt_sensitive_data(rows[patient_id])]
    /\ UNCHANGED ntokens
    /\ UNCHANGED <<handler_vars, sched_vars, probe>>

\* The request ends: get_db closes the session and the next call gets a
\* new one.
CloseSession ==
    /\ session # Expired(Len(patients))
    /\ session' = Expired(Len(patients))
    /\ UNCHANGED <<patients, ntokens, pret, pops, deactivated>>
    /\ UNCHANGED <<handler_vars, sched_vars, probe>>

PatientIds == 1..MaxPatients

PatientNext ==
    \/ \E data \in CreateData : CreatePatient(data)
    \/ \E id \in PatientIds : GetPatientById(id)
    \/ \E id \in PatientIds, data \in UpdateData : UpdatePatient(id, data)
    \/ \E criteria \in SearchCriteria, shown \in SUBSET PatientIds :
          SearchPatients(criteria, shown)
    \/ \E id \in PatientIds : DeactivatePatient(id)
    \/ CloseSession

PatientSpec == QuietInit /\ [][PatientNext]_vars

\* The email a stored value stands for.
EmailOf(row) == row.email.plain

(***************************************************************************)
(* Claims about the patient store.                                         *)
(***************************************************************************)
\* An active patient other than except_id has this email.
ActiveHasEmail(e, except_id) ==
    \E i \in 1..Len(patients) :
        i # except_id /\ patients[i].is_active /\ EmailOf(patients[i]) = e

PatientCall(op) == pops' = pops + 1 /\ pret'.op = op

\* C25 (as claimed): create_patient with the email of an active patient
\* raises ValueError and adds no patient; update_patient that sets the email
\* of another active patient raises ValueError and changes nothing; no two
\* active patients share an email.
C25_ActiveEmailsUnique ==
    /\ [](\A i, j \in 1..Len(patients) :
            (i # j /\ patients[i].is_active /\ patients[j].is_active
                /\ patients[i].email # Null) =>
               EmailOf(patients[i]) # EmailOf(patients[j]))
    /\ [][(PatientCall("create_patient") /\ pret'.email # ""
              /\ ActiveHasEmail(pret'.email, 0)) =>
             (pret'.result = "ValueError" /\ patients' = patients)]_vars
    /\ [][(PatientCall("update_patient") /\ pret'.result # "None"
              /\ pret'.email # "" /\ ActiveHasEmail(pret'.email, pret'.id)) =>
             (pret'.result = "ValueError" /\ patients' = patients)]_vars

\* C26: deactivation is terminal: a patient that deactivate_patient has
\* deactivated stays inactive, get_patient_by_id, update_patient and
\* deactivate_patient return None for it from then on, and no PatientService
\* call makes an inactive patient active.
C26_DeactivationIsTerminal ==
    /\ [](\A p \in deactivated : ~patients[p].is_active)
    /\ [][\A p \in deactivated :
             (pops' = pops + 1 /\ pret'.id = p
                 /\ pret'.op \in {"get_patient_by_id", "update_patient",
                                  "deactivate_patient"}) =>
                pret'.result = "None"]_vars
    /\ [][\A i \in 1..Len(patients) :
             ~patients[i].is_active => ~patients'[i].is_active]_vars

\* C26 witness: patient 1 was created and deactivated, and update_patient
\* has then been called for it and returned None.
C26_Witness ==
    /\ deactivated = {1}
    /\ ~patients[1].is_active
    /\ pops = 3
    /\ pret = [op |-> "update_patient", id |-> 1, result |-> "None"]

(***************************************************************************)
(* Claims about authorization.                                             *)
(***************************************************************************)
\* C27: check_permission is False for every inactive user whatever the role,
\* True for every active admin whatever required_roles is, and for every
\* other active user it is (user.role in required_roles).
C27_PermissionByActiveAndRole ==
    probe.fn = "check_permission" =>
        probe.result =
            (IF ~probe.user.is_active THEN FALSE
             ELSE IF probe.user.role = "admin" THEN TRUE
             ELSE probe.user.role \in probe.required_roles)

\* C27 witness: check_permission returned False for an inactive admin asked
\* for an admin-only resource.
C27_Witness ==
    /\ probe.fn = "check_permission"
    /\ probe.user = [role |-> "admin", is_active |-> FALSE]
    /\ probe.required_roles = {"admin"}
    /\ probe.result = FALSE

(***************************************************************************)
(* Claims about how handle_error_with_retry ends.                          *)
(***************************************************************************)
\* C28 (as claimed): when a call ends with an error, the error is an
\* ETLError whose error_type and severity are the classification of the
\* last failure and whose details.attempt is the number of calls made to
\* work, whatever kind of callable work is.
C28_OnlyETLErrorEscapes ==
    \A c \in SoloCallers :
        LET st == call[c]
            error_type == classify_error(AwaitMsg(st.work, st.work_calls))
        IN  st.pc = "raised" =>
               /\ st.error.exc = "ETLError"
               /\ st.error.error_type = error_type
               /\ st.error.severity = determine_severity(error_type)
               /\ st.error.attempt = st.work_calls

\* The event loop runs every task that is ready and ends every sleep:
\* Spec with weak fairness of the steps of a call.
FairSpec ==
    /\ Spec
    /\ \A c \in SoloCallers : WF_vars(Attempt(c)) /\ WF_vars(Wake(c))

\* C29 (as claimed): under the default policies every call ends, after at
\* least one and at most 5 calls to work; a failure at attempt a ends the
\* call exactly when a >= max_attempts of that failure's own category.
C29_TerminatesWithinPolicy ==
    /\ [](\A c \in SoloCallers :
            LET st == call[c]
                error_type == classify_error(AwaitMsg(st.work, st.work_calls))
            IN  ~st.custom.given =>
                   /\ st.work_calls <= 5
                   /\ Finished(st) => st.work_calls >= 1
                   /\ st.pc = "raised" =>
                         st.attempt >= SpecMaxAttempts(error_type)
                   /\ st.pc = "sleeping" =>
                         st.attempt < SpecMaxAttempts(error_type))
    /\ \A c \in SoloCallers :
          (call[c].pc = "calling") ~> Finished(call[c])

\* Every PII column of the committed rows is empty or a Fernet token.
EncryptedAtRest(rows) ==
    \A i \in 1..Len(rows) : \A k \in 1..Len(PIIFields) :
        rows[i][PIIFields[k]] = Null \/ IsCiphertext(rows[i][PIIFields[k]])

\* C30 (as claimed): whatever calls were made on the one session, the
\* persisted email, phone_number, address and emergency_contact of every
\* patient are ciphertext, never the plaintext returned to the caller.
C30_PIIEncryptedAtRest == EncryptedAtRest(patients)
====
